---- MODULE Spec2Model ----
(***************************************************************************)
(* Verification model of the data-access layer of the Next.js template:    *)
(* the query-key factory, the error normalisation layer, the data client   *)
(* wrapper (useSupabase), the CRUD hook factory on top of the query cache, *)
(* the useErrorHandler hook, the useSmartLoading hook, the retry policy of *)
(* the query client and formatRelativeDate.                                *)
(*                                                                         *)
(* Strings that the code inspects with includes()/toLowerCase() are        *)
(* modelled as sequences of words; a query key is a sequence of tokens.    *)
(***************************************************************************)
EXTENDS Integers, Sequences, FiniteSets, TLC

VARIABLES
    \* ---- query-key factory (pure functions, applied to drawn inputs)
    kEntity,      \* the entity whose factory is used
    kId,          \* the id handed to detail(id)
    kFilter,      \* the filter handed to list(filter)
    kUserType,    \* the userType handed to jobs.list(filter, userType)
    kOp,          \* which factory function was applied last ("none" at start)
    kKey          \* the key it returned

keyVars == <<kEntity, kId, kFilter, kUserType, kOp, kKey>>

VARIABLES
    \* ---- error normalisation (pure functions, applied to drawn inputs)
    eIn,          \* the value handed to transformError
    ePc,          \* "start", "once" (transformed), "twice" (result transformed again)
    eRes1,        \* outcome of transformError(eIn, c1)
    eRes2         \* outcome of transformError(eRes1.val, c2)

errVars == <<eIn, ePc, eRes1, eRes2>>

VARIABLES
    \* ---- data client wrapper: one useSupabase instance
    wLoading,     \* the loading flag (useState)
    wCalls,       \* the query()/mutate() calls made on the instance
    wToasts       \* the toasts shown so far, oldest first

wrapVars == <<wLoading, wCalls, wToasts>>

VARIABLES
    \* ---- data hooks: one operation of one data hook, run on one fn outcome
    dHook,        \* the hook operation
    dOutcome,     \* what the backend call (fn) does
    dPc,          \* "start", "done"
    dResult       \* what the hook operation hands to the query cache or its caller

hookVars == <<dHook, dOutcome, dPc, dResult>>

VARIABLES
    \* ---- CRUD hooks of one factory on the query cache
    qCache,       \* query cache: key -> entry
    qHooks,       \* the list-hook and single-item-hook instances
    qMutation,    \* the mutation in flight, if any
    qBackend      \* version of the table's rows at the backend

crudVars == <<qCache, qHooks, qMutation, qBackend>>

VARIABLES
    \* ---- useErrorHandler: one instance
    hOptions,     \* showToast, logErrors, redirectOnAuthError
    hLastError,   \* lastError state
    hIsError,     \* isError state
    hToasts,      \* the toasts shown so far, oldest first
    hPushes,      \* number of router.push('/login') calls
    hLogs,        \* number of console.error diagnostics
    hCalls,       \* number of handle/execute/executeQuietly calls made
    hLast         \* the last call: what it was given and what it returned or threw

handlerVars == <<hOptions, hLastError, hIsError, hToasts, hPushes, hLogs, hCalls, hLast>>

VARIABLES
    \* ---- useSmartLoading: one instance, on a discrete clock
    smOpts,       \* isDataQuery, loadingDelay, showBackgroundRefetch
    smIn,         \* the arguments of the last render: isLoading, isFetching, hasData
    smMounted,    \* "new", "mounted", "unmounted"
    smShow,       \* shouldShowLoading state
    smLoaded,     \* hasLoadedOnce state
    smTimers,     \* the timers of the runtime: id -> pending, time remaining
    smRef,        \* loadingTimeoutRef.current: a timer id, 0 for undefined
    smDeps,       \* the dependencies the delay effect last ran with
    smAge,        \* for how long each condition has held without a break
    smHid         \* the last step was a render that turned the indicator off

smartVars == <<smOpts, smIn, smMounted, smShow, smLoaded, smTimers, smRef, smDeps, smAge, smHid>>

VARIABLES
    \* ---- one query or mutation under the retry policy of the query client
    rHook,         \* the hook operation whose queryFn / mutationFn runs
    rFailure,      \* how the backend fails it: HTTP status and the wrapper's outcome
    rPc,           \* "idle", "running", "waiting", "failed", "succeeded"
    rFailureCount, \* failureCount of the retryer
    rAttempts,     \* runs of the function so far
    rDelays        \* the delays waited before each retry, oldest first

retryVars == <<rHook, rFailure, rPc, rFailureCount, rAttempts, rDelays>>

VARIABLES
    \* ---- two list keys of one entity, built from two filter arguments
    cEntity,      \* the key factory
    cF1,          \* first argument: a filter object (own reference) or undefined
    cF2,          \* second argument
    cPc,          \* "start", "done"
    cKey1,        \* list(f1), once built
    cKey2         \* list(f2), once built

cmpVars == <<cEntity, cF1, cF2, cPc, cKey1, cKey2>>

VARIABLES
    \* ---- one call of formatRelativeDate, time counted in hours
    fNow,         \* new Date().getTime()
    fThen,        \* new Date(date).getTime()
    fPc,          \* "start", "done"
    fOut          \* the text returned

fmtVars == <<fNow, fThen, fPc, fOut>>

VARIABLES
    \* ---- the list fetch of two useCrud instances of one factory
    lOptions1,    \* listOptions of the first instance
    lOptions2,    \* listOptions of the second instance
    lPc,          \* "start", "done"
    lKey1,        \* fullQueryKey of the first instance
    lKey2,        \* fullQueryKey of the second instance
    lQuery1,      \* the backend query the first instance's queryFn builds
    lQuery2       \* the backend query the second instance's queryFn builds

lqVars == <<lOptions1, lOptions2, lPc, lKey1, lKey2, lQuery1, lQuery2>>

VARIABLES
    \* ---- one call of the update mutation of useCrud
    uId,          \* the id of the caller's argument
    uUpdates,     \* the other entries of the argument: key -> value
    uPc,          \* "start", "done"
    uRequest      \* what is sent: the payload of update() and the id of eq('id', id)

updVars == <<uId, uUpdates, uPc, uRequest>>

VARIABLES
    \* ---- UserProvider, mounted
    pSupabaseUser, \* supabaseUser state: a user id, "none" for null
    pTofilUser,    \* tofilUser state: the id of the user whose profile it is, "none" for null
    pIsLoading,    \* isLoading state
    pSession,      \* the session check of the first effect: "pending", "done"
    pFetches,      \* the runs of the profile effect's fetch: pc, user, cancelled
    pEvents        \* auth-state changes so far

userVars == <<pSupabaseUser, pTofilUser, pIsLoading, pSession, pFetches, pEvents>>

VARIABLES
    \* ---- useVersionCheck: one mounted instance, time counted in seconds
    vSkip,        \* shouldSkipCheck
    vChecking,    \* isCheckingRef.current
    vSinceCheck,  \* Date.now() - lastCheckRef.current, counted up to MIN_CHECK_INTERVAL
    vRunning,     \* number of checks between their start and their end
    vInterval,    \* the interval timer: armed, time to its next firing
    vRoute,       \* the route-change timer: armed, time to its firing
    vStored,      \* localStorage 'app-build-id': a build id, "none" when unset
    vUpdate,      \* updateAvailable state
    vSinceStart,  \* time since a check last started, counted up to MIN_CHECK_INTERVAL
    vGap,         \* time between the starts of the last two checks (-1: fewer than two)
    vLastOutcome  \* how the last finished check ended

verVars == <<vSkip, vChecking, vSinceCheck, vRunning, vInterval, vRoute, vStored, vUpdate,
             vSinceStart, vGap, vLastOutcome>>

VARIABLES
    \* ---- useLocalStorage(key, initialValue): one instance and the storage
    sInitial,     \* initialValue
    sMounted,     \* the hook has rendered
    sValue,       \* storedValue state
    sStorage,     \* the localStorage item under key
    sLast         \* the last operation: "none", "mount", "set", "remove", "external"

lsVars == <<sInitial, sMounted, sValue, sStorage, sLast>>

\* the components added after the first six
moreVars == <<smartVars, retryVars, cmpVars, fmtVars, updVars, userVars, verVars, lsVars, lqVars>>

vars == <<keyVars, errVars, wrapVars, hookVars, crudVars, handlerVars, moreVars>>

\* what the actions of one component leave alone
keyOthers == <<errVars, wrapVars, hookVars, crudVars, handlerVars, moreVars>>

errOthers == <<keyVars, wrapVars, hookVars, crudVars, handlerVars, moreVars>>

wrapOthers == <<keyVars, errVars, hookVars, crudVars, handlerVars, moreVars>>

hookOthers == <<keyVars, errVars, wrapVars, crudVars, handlerVars, moreVars>>

crudOthers == <<keyVars, errVars, wrapVars, hookVars, handlerVars, moreVars>>

handlerOthers == <<keyVars, errVars, wrapVars, hookVars, crudVars, moreVars>>

firstVars == <<keyVars, errVars, wrapVars, hookVars, crudVars, handlerVars>>

smartOthers == <<firstVars, retryVars, cmpVars, fmtVars, updVars, userVars, verVars, lsVars, lqVars>>

retryOthers == <<firstVars, smartVars, cmpVars, fmtVars, updVars, userVars, verVars, lsVars, lqVars>>

cmpOthers == <<firstVars, smartVars, retryVars, fmtVars, updVars, userVars, verVars, lsVars, lqVars>>

fmtOthers == <<firstVars, smartVars, retryVars, cmpVars, updVars, userVars, verVars, lsVars, lqVars>>

updOthers == <<firstVars, smartVars, retryVars, cmpVars, fmtVars, userVars, verVars, lsVars, lqVars>>

userOthers == <<firstVars, smartVars, retryVars, cmpVars, fmtVars, updVars, verVars, lsVars, lqVars>>

verOthers == <<firstVars, smartVars, retryVars, cmpVars, fmtVars, updVars, userVars, lsVars, lqVars>>

lsOthers == <<firstVars, smartVars, retryVars, cmpVars, fmtVars, updVars, userVars, verVars, lqVars>>

lqOthers == <<firstVars, smartVars, retryVars, cmpVars, fmtVars, updVars, userVars, verVars, lsVars>>

(***************************************************************************)
(* Query keys.  A token is a string or a filter object; both are carried   *)
(* in one record shape so that keys compare structurally.                  *)
(***************************************************************************)
NoFilter == [present |-> FALSE, truthy |-> FALSE, obj |-> {}]

ObjFilter(pairs) == [present |-> TRUE, truthy |-> TRUE, obj |-> pairs]

\* a filter argument that is given but falsy (jobs.list takes `unknown`)
FalsyFilter == [present |-> TRUE, truthy |-> FALSE, obj |-> {}]

StrTok(s) == [str |-> s, flt |-> NoFilter]

FltTok(f) == [str |-> "", flt |-> f]

\* the entities of queryKeys that expose all()/lists()/list()
ListEntities == {"users", "locations", "organisations", "jobs", "files", "userInvitations"}

\* the entities that also expose details()/detail(id)
DetailEntities == {"users", "locations", "organisations", "jobs", "files"}

RootName(e) == IF e = "userInvitations" THEN "user-invitations" ELSE e

all(e) == <<StrTok(RootName(e))>>

lists(e) == all(e) \o <<StrTok("list")>>

\* a list key that leaves the filters out
list_IgnoresFilter(e, f, ut) == lists(e)

\* jobs.list(filter, userType) pushes each argument that is truthy; the
\* other entities append a truthy filters object and nothing else
list(e, f, ut) ==
    IF e = "jobs"
    THEN lists(e) \o (IF f.truthy THEN <<FltTok(f)>> ELSE <<>>)
                  \o (IF ut # "" THEN <<StrTok(ut)>> ELSE <<>>)
    ELSE IF f.truthy THEN lists(e) \o <<FltTok(f)>> ELSE lists(e)

details(e) == all(e) \o <<StrTok("detail")>>

\* a detail key built without spreading the entity root
detail_Unrooted(e, id) == <<StrTok("detail"), StrTok(id)>>

detail(e, id) == details(e) \o <<StrTok(id)>>

\* partial key matching of the query cache: filter key p matches key k when
\* p is a prefix of k (objects compared structurally)
IsPrefix(p, k) == Len(p) <= Len(k) /\ SubSeq(k, 1, Len(p)) = p

IsStrictPrefix(p, k) == IsPrefix(p, k) /\ Len(p) < Len(k)

(***************************************************************************)
(* Inputs of the key factory                                               *)
(***************************************************************************)
MaxFilterKeys == 2

FilterNames == {"status", "type"}

FilterValues == {"AVAILABLE", "OWNER"}

FilterPairs == FilterNames \X FilterValues

\* an object has at most one value per property
IsObject(ps) == \A p \in ps, q \in ps : p[1] = q[1] => p = q

FilterObjects == {ps \in SUBSET FilterPairs : IsObject(ps) /\ Cardinality(ps) <= MaxFilterKeys}

Filters == {NoFilter, FalsyFilter} \cup {ObjFilter(ps) : ps \in FilterObjects}

Ids == {"1", "2", "detail", "list"}

UserTypes == {"", "CONTRACTOR"}

KeyIdle ==
    /\ kEntity = "users"
    /\ kId = "1"
    /\ kFilter = NoFilter
    /\ kUserType = ""
    /\ kOp = "none"
    /\ kKey = <<>>

KeyInit ==
    /\ kEntity \in ListEntities
    /\ kId \in Ids
    /\ kFilter \in Filters
    /\ kUserType \in UserTypes
    /\ kOp = "none"
    /\ kKey = <<>>

CallAll ==
    /\ kOp' = "all"
    /\ kKey' = all(kEntity)
    /\ UNCHANGED <<kEntity, kId, kFilter, kUserType, keyOthers>>

CallLists ==
    /\ kOp' = "lists"
    /\ kKey' = lists(kEntity)
    /\ UNCHANGED <<kEntity, kId, kFilter, kUserType, keyOthers>>

\* only jobs.list takes a second argument and a non-object filter
CallList ==
    /\ kEntity # "jobs" => (kUserType = "" /\ kFilter # FalsyFilter)
    /\ kOp' = "list"
    /\ kKey' = list(kEntity, kFilter, kUserType)
    /\ UNCHANGED <<kEntity, kId, kFilter, kUserType, keyOthers>>

CallDetail ==
    /\ kEntity \in DetailEntities
    /\ kOp' = "detail"
    /\ kKey' = detail(kEntity, kId)
    /\ UNCHANGED <<kEntity, kId, kFilter, kUserType, keyOthers>>

(***************************************************************************)
(* Strings.  A string is a sequence of words; includes() is the contiguous *)
(* sub-sequence test, toLowerCase() works word by word.                    *)
(***************************************************************************)
Includes(m, p) ==
    \E i \in 0..(Len(m) - Len(p)) : SubSeq(m, i + 1, i + Len(p)) = p

\* toLowerCase on a word: the words of the model that differ only by case
\* are mapped to one spelling, every other word is its own lower-case form
LowerWord(w) ==
    CASE w = "Permission denied" -> "permission denied"
      [] w = "File type" -> "file type"
      [] w = "Failed to fetch" -> "failed to fetch"
      [] OTHER -> w

toLowerCase(m) == [i \in 1..Len(m) |-> LowerWord(m[i])]

(***************************************************************************)
(* Values of unknown shape handed to the error layer.  One record shape    *)
(* carries null, undefined, strings, Error instances, plain objects and    *)
(* AppError instances, so that a result can be handed in again.            *)
(***************************************************************************)
Val(tag, hasMessage, msgType, msg, hasStatus, hasMarker, hasDetails, hasHint, hasCode, detailsText) ==
    [tag |-> tag, hasMessage |-> hasMessage, msgType |-> msgType, msg |-> msg,
     status |-> hasStatus, marker |-> hasMarker,
     details |-> hasDetails, hint |-> hasHint, code |-> hasCode, detailsText |-> detailsText,
     kind |-> "none", severity |-> "none", name |-> "none",
     ctxShape |-> "none", ctx |-> "none", orig |-> FALSE]

NullVal == Val("null", FALSE, "undefined", <<>>, FALSE, FALSE, FALSE, FALSE, FALSE, <<>>)

UndefinedVal == Val("undefined", FALSE, "undefined", <<>>, FALSE, FALSE, FALSE, FALSE, FALSE, <<>>)

\* a bare string: its text is kept in msg, it has no properties
StringVal(m) == Val("string", FALSE, "undefined", m, FALSE, FALSE, FALSE, FALSE, FALSE, <<>>)

\* new Error(m)
ErrorVal(m) == Val("Error", TRUE, "string", m, FALSE, FALSE, FALSE, FALSE, FALSE, <<>>)

\* { message: m }, the object the data client wrapper builds in its catch path
MessageOnlyVal(m) == Val("object", TRUE, "string", m, FALSE, FALSE, FALSE, FALSE, FALSE, <<>>)

\* class AppError: message, type, severity, context, originalError
\* (ErrorSeverity.ERROR is the constructor's default severity)
AppError(message, type, severity, ctxShape, ctx, orig, name) ==
    [tag |-> "AppError", hasMessage |-> TRUE, msgType |-> "string", msg |-> message,
     status |-> FALSE, marker |-> FALSE,
     details |-> FALSE, hint |-> FALSE, code |-> FALSE, detailsText |-> <<>>,
     kind |-> type, severity |-> severity, name |-> name,
     ctxShape |-> ctxShape, ctx |-> ctx, orig |-> orig]

AuthenticationError(message, orig) ==
    AppError(message, "AUTH", "error", "none", "none", orig, "AuthenticationError")

PermissionError(message, ctx) ==
    AppError(message, "PERMISSION", "warning", "context", ctx, FALSE, "PermissionError")

NetworkError(message, orig) ==
    AppError(message, "NETWORK", "error", "none", "none", orig, "NetworkError")

ValidationError(message) ==
    AppError(message, "VALIDATION", "warning", "fields", "none", FALSE, "ValidationError")

FileUploadError(message, ctx) ==
    AppError(message, "FILE_UPLOAD", "error", "context", ctx, FALSE, "FileUploadError")

DatabaseError(message, orig) ==
    AppError(message, "DATABASE", "error", "none", "none", orig, "DatabaseError")

ErrorType == {"AUTH", "PERMISSION", "NETWORK", "VALIDATION", "FILE_UPLOAD", "DATABASE", "UNKNOWN"}

isAppError(error) == error.tag = "AppError"

\* error instanceof Error (AppError extends Error)
instanceofError(error) == error.tag \in {"Error", "AppError"}

\* typeof error === 'object' && error !== null
isObjectLike(error) == error.tag \in {"Error", "object", "AppError"}

isAuthError(error) ==
    /\ isObjectLike(error)
    /\ error.status
    /\ error.hasMessage
    /\ error.marker

isPostgrestError(error) ==
    /\ isObjectLike(error)
    /\ error.hasMessage
    /\ (error.details \/ error.hint \/ error.code)

\* !error
isFalsy(error) ==
    \/ error.tag \in {"null", "undefined"}
    \/ error.tag = "string" /\ error.msg = <<>>

(***************************************************************************)
(* getUserFriendlyError                                                    *)
(***************************************************************************)
errorMessageMap == <<
    [key |-> <<"Invalid login credentials">>, value |-> <<"Invalid email or password. Please try again.">>],
    [key |-> <<"Email not confirmed">>, value |-> <<"Please verify your email before logging in.">>],
    [key |-> <<"User already registered">>, value |-> <<"An account with this email already exists.">>],
    [key |-> <<"new row violates ", "row-level security", " policy">>, value |-> <<"You don't have permission to perform this action.">>],
    [key |-> <<"permission denied">>, value |-> <<"Access denied. You don't have the required permissions.">>],
    [key |-> <<"Payload too large">>, value |-> <<"File size exceeds the maximum limit of 10MB.">>],
    [key |-> <<"Invalid ", "file type">>, value |-> <<"This file type is not allowed.">>],
    [key |-> <<"File size", " exceeds">>, value |-> <<"The file is too large. Please upload a smaller file.">>],
    [key |-> <<"File type">>, value |-> <<"This file type is not supported. Please check the allowed file types.">>],
    [key |-> <<"storage/", "unauthorized">>, value |-> <<"You don't have permission to upload files to this location.">>],
    [key |-> <<"storage/", "object-not-found">>, value |-> <<"The requested file could not be found.">>],
    [key |-> <<"storage/", "quota-exceeded">>, value |-> <<"Storage quota exceeded. Please contact support.">>],
    [key |-> <<"duplicate key value">>, value |-> <<"This item already exists.">>],
    [key |-> <<"foreign key violation">>, value |-> <<"Cannot delete this item as it's being used elsewhere.">>],
    [key |-> <<"not-null constraint">>, value |-> <<"Please fill in all required fields.">>],
    [key |-> <<"Failed to fetch">>, value |-> <<"Network error. Please check your connection.">>],
    [key |-> <<"NetworkError">>, value |-> <<"Unable to connect. Please check your internet connection.">>],
    [key |-> <<"Internal Server Error">>, value |-> <<"Something went wrong. Please try again later.">> ] >>

ExactMatches(message) == {i \in 1..Len(errorMessageMap) : errorMessageMap[i].key = message}

PartialMatches(message) ==
    {i \in 1..Len(errorMessageMap) :
        Includes(toLowerCase(message), toLowerCase(errorMessageMap[i].key))}

MinOf(S) == CHOOSE i \in S : \A j \in S : i <= j

\* the exact match, else the first partial match in insertion order, else
\* `otherwise`
lookupMessage(message, otherwise) ==
    IF ExactMatches(message) # {}
    THEN errorMessageMap[MinOf(ExactMatches(message))].value
    ELSE IF PartialMatches(message) # {}
         THEN errorMessageMap[MinOf(PartialMatches(message))].value
         ELSE otherwise

Returned(v) == [threw |-> FALSE, val |-> v]

\* a TypeError raised by calling a string method on something that has none
Thrown == [threw |-> TRUE, val |-> <<>>]

\* error.message || error.details || "": a truthy non-string message (a
\* number here) is kept as it is
messageIsTruthyNonString(error) == error.hasMessage /\ error.msgType = "number"

messageOrDetails(error) ==
    IF error.hasMessage /\ error.msgType = "string" /\ error.msg # <<>>
    THEN error.msg
    ELSE IF error.details THEN error.detailsText ELSE <<>>

getUserFriendlyError(error) ==
    IF isFalsy(error) THEN Returned(<<"An unexpected error occurred.">>)
    ELSE IF isPostgrestError(error)
    THEN IF messageIsTruthyNonString(error)
         THEN Thrown    \* message.toLowerCase is not a function
         ELSE LET message == messageOrDetails(error)
              IN  Returned(lookupMessage(message,
                      IF message # <<>> THEN message ELSE <<"Database error occurred.">>))
    ELSE IF instanceofError(error)
    THEN Returned(lookupMessage(error.msg, error.msg))
    ELSE IF error.tag = "string"
    THEN Returned(IF ExactMatches(error.msg) # {}
                  THEN errorMessageMap[MinOf(ExactMatches(error.msg))].value
                  ELSE error.msg)
    ELSE Returned(<<"An unexpected error occurred.">>)

(***************************************************************************)
(* transformError                                                          *)
(***************************************************************************)
\* error.message?.includes(p): false for a null/undefined message
messageIncludes(error, p) ==
    error.hasMessage /\ error.msgType = "string" /\ Includes(error.msg, p)

isPermissionMessage(error) ==
    \/ messageIncludes(error, <<"row-level security">>)
    \/ messageIncludes(error, <<"permission denied">>)

isValidationMessage(error) ==
    \/ messageIncludes(error, <<"not-null constraint">>)
    \/ messageIncludes(error, <<"check constraint">>)

isNetworkMessage(error) ==
    /\ instanceofError(error)
    /\ \/ Includes(error.msg, <<"Failed to fetch">>)
       \/ Includes(error.msg, <<"NetworkError">>)
       \/ Includes(error.msg, <<"ERR_NETWORK">>)

isFileUploadMessage(error) ==
    /\ instanceofError(error)
    /\ \/ Includes(error.msg, <<"storage/">>)
       \/ Includes(error.msg, <<"File size">>)
       \/ Includes(error.msg, <<"File type">>)

\* the body of transformError after the early return for an AppError
classify(error, context) ==
    LET friendly == getUserFriendlyError(error)
    IN
    IF isAuthError(error)
    THEN IF friendly.threw THEN Thrown
         ELSE Returned(AuthenticationError(friendly.val, TRUE))
    ELSE IF isPostgrestError(error)
    THEN IF friendly.threw THEN Thrown
         ELSE IF isPermissionMessage(error)
              THEN Returned(PermissionError(friendly.val, context))
              ELSE IF isValidationMessage(error)
                   THEN Returned(ValidationError(friendly.val))
                   ELSE Returned(DatabaseError(friendly.val, TRUE))
    ELSE IF isNetworkMessage(error)
    THEN Returned(NetworkError(friendly.val, TRUE))
    ELSE IF isFileUploadMessage(error)
    THEN Returned(FileUploadError(friendly.val, context))
    ELSE IF instanceofError(error)
    THEN Returned(AppError(friendly.val, "UNKNOWN", "error", "context", context, TRUE, "AppError"))
    ELSE IF error.tag = "string"
    THEN Returned(AppError(error.msg, "UNKNOWN", "error", "context", context, FALSE, "AppError"))
    ELSE Returned(AppError(<<"An unexpected error occurred">>, "UNKNOWN", "error",
                           "context+error", context, FALSE, "AppError"))

\* transformError without the early return for a value that is an AppError
transformError_NoEarlyReturn(error, context) == classify(error, context)

transformError(error, context) ==
    IF isAppError(error) THEN Returned(error) ELSE classify(error, context)

(***************************************************************************)
(* Inputs of the error layer                                               *)
(***************************************************************************)
MaxMsgParts == 2

SamplePhrases == {
    <<"new row violates ", "row-level security", " policy">>,
    <<"permission denied">>,
    <<"Permission denied">>,
    <<"not-null constraint">>,
    <<"Failed to fetch">>,
    <<"File type">>,
    <<"Test error">> }

RECURSIVE Concats(_)
Concats(n) ==
    IF n = 0 THEN {<<>>}
    ELSE Concats(n - 1) \cup {m \o p : m \in Concats(n - 1), p \in SamplePhrases}

Messages == Concats(MaxMsgParts)

Contexts == {"undefined", "fetching jobs", "updating jobs item"}

\* details / hint / code present
DbShapes == {<<FALSE, FALSE, FALSE>>, <<TRUE, FALSE, FALSE>>, <<FALSE, TRUE, FALSE>>,
             <<FALSE, FALSE, TRUE>>, <<TRUE, TRUE, TRUE>>}

DetailsTexts == {<<>>, <<"duplicate key value">>}

\* Error instances and plain objects carrying a string message
StringMessageVals ==
    {Val(tag, TRUE, "string", m, st, mk, db[1], db[2], db[3], dt) :
        tag \in {"Error", "object"}, m \in Messages, st \in BOOLEAN, mk \in BOOLEAN,
        db \in DbShapes, dt \in DetailsTexts}

\* plain objects without message, or with a message that is no string
OtherMessageVals ==
    {Val("object", hm, mt, <<>>, st, mk, db[1], db[2], db[3], dt) :
        hm \in BOOLEAN, mt \in {"undefined", "number"}, st \in BOOLEAN, mk \in BOOLEAN,
        db \in DbShapes, dt \in DetailsTexts}

WellFormed(v) ==
    /\ v.detailsText # <<>> => v.details
    /\ ~v.hasMessage => v.msgType = "undefined"

AppErrorVals ==
    {AuthenticationError(m, o) : m \in Messages, o \in BOOLEAN}
    \cup {PermissionError(m, c) : m \in Messages, c \in Contexts}
    \cup {NetworkError(m, o) : m \in Messages, o \in BOOLEAN}
    \cup {ValidationError(m) : m \in Messages}
    \cup {FileUploadError(m, c) : m \in Messages, c \in Contexts}
    \cup {DatabaseError(m, o) : m \in Messages, o \in BOOLEAN}
    \cup {AppError(m, "UNKNOWN", "error", "context", c, o, "AppError") :
            m \in Messages, c \in Contexts, o \in BOOLEAN}

ErrorInputs ==
    {NullVal, UndefinedVal}
    \cup {StringVal(m) : m \in Messages}
    \cup {v \in StringMessageVals \cup OtherMessageVals : WellFormed(v)}
    \cup AppErrorVals

NotRun == [threw |-> FALSE, val |-> <<>>]

ErrIdle ==
    /\ eIn = NullVal
    /\ ePc = "start"
    /\ eRes1 = NotRun
    /\ eRes2 = NotRun

ErrInit ==
    /\ eIn \in ErrorInputs
    /\ ePc = "start"
    /\ eRes1 = NotRun
    /\ eRes2 = NotRun

\* transformError(eIn, c1)
TransformOnce ==
    /\ ePc = "start"
    /\ \E c1 \in Contexts : eRes1' = transformError(eIn, c1)
    /\ ePc' = "once"
    /\ UNCHANGED <<eIn, eRes2, errOthers>>

\* transformError(transformError(eIn, c1), c2), when the inner call returned
TransformAgain ==
    /\ ePc = "once"
    /\ ~eRes1.threw
    /\ \E c2 \in Contexts : eRes2' = transformError(eRes1.val, c2)
    /\ ePc' = "twice"
    /\ UNCHANGED <<eIn, eRes1, errOthers>>

(***************************************************************************)
(* Data client wrapper: useSupabase().query / .mutate                      *)
(***************************************************************************)
\* data of a backend result: absent (null), or rows whose keys are in wire
\* (snake_case) or application (camelCase) format
NoData == [present |-> FALSE, keys |-> "none"]

Rows(keys) == [present |-> TRUE, keys |-> keys]

\* camelizeKeys turns every key into camelCase, whatever it was
camelizeKeys(data) == IF data.present THEN Rows("camel") ELSE data

\* what the function handed to query()/mutate() does: it resolves to
\* {data, error} or it throws
FnOk(data) == [t |-> "ok", data |-> data, error |-> NullVal]

FnError(error) == [t |-> "error", data |-> NoData, error |-> error]

FnThrow(value) == [t |-> "throw", data |-> NoData, error |-> value]

\* a PostgrestError as the backend reports it
PostgrestErrorVal(m) == Val("object", TRUE, "string", m, FALSE, FALSE, TRUE, TRUE, TRUE, <<>>)

BackendErrors == {PostgrestErrorVal(m) :
                    m \in {<<"permission denied">>, <<"not-null constraint">>, <<"Test error">>}}

\* anything can be thrown: catch (err) is of type unknown
ThrownValues == {ErrorVal(<<"Failed to fetch">>), ErrorVal(<<"Test error">>),
                 StringVal(<<"Test error">>), NullVal, UndefinedVal}

FnOutcomes ==
    {FnOk(d) : d \in {NoData, Rows("snake")}}
    \cup {FnError(e) : e \in BackendErrors}
    \cup {FnThrow(v) : v \in ThrownValues}

\* the TypeError of a property read or method call on a value that has none
TypeErrorVal == ErrorVal(<<"TypeError">>)

Toast(title, description) == [title |-> title, description |-> description]

Resolved(data, error, toasts) ==
    [escaped |-> FALSE, thrown |-> NullVal, data |-> data, error |-> error, toasts |-> toasts]

Escaped(value, toasts) ==
    [escaped |-> TRUE, thrown |-> value, data |-> NoData, error |-> NullVal, toasts |-> toasts]

\* { message: error.message } of the catch block
messageObject(err) ==
    IF err.hasMessage /\ err.msgType = "string"
    THEN MessageOnlyVal(err.msg)
    ELSE Val("object", TRUE, err.msgType, <<>>, FALSE, FALSE, FALSE, FALSE, FALSE, <<>>)

\* the catch block of query and mutate: toast the friendly message, then
\* build {data: null, error: {message: error.message}}
catchBlock(err, toasts) ==
    LET friendly == getUserFriendlyError(err)
    IN  IF friendly.threw THEN Escaped(TypeErrorVal, toasts)
        ELSE IF err.tag \in {"null", "undefined"}
        THEN Escaped(TypeErrorVal, toasts \o <<Toast("Error", friendly.val)>>)
        ELSE Resolved(NoData, messageObject(err), toasts \o <<Toast("Error", friendly.val)>>)

\* the try block on a backend-reported error
errorBranch(error) ==
    LET friendly == getUserFriendlyError(error)
    IN  IF friendly.threw THEN catchBlock(TypeErrorVal, <<>>)
        ELSE Resolved(NoData, error, <<Toast("Error", friendly.val)>>)

queryBody(o) ==
    IF o.t = "throw" THEN catchBlock(o.error, <<>>)
    ELSE IF o.t = "error" THEN errorBranch(o.error)
    ELSE Resolved(camelizeKeys(o.data), NullVal, <<>>)

mutateBody(o) ==
    IF o.t = "throw" THEN catchBlock(o.error, <<>>)
    ELSE IF o.t = "error" THEN errorBranch(o.error)
    ELSE Resolved(o.data, NullVal, <<>>)

wrapperBody(op, o) == IF op = "query" THEN queryBody(o) ELSE mutateBody(o)

\* setLoading(false) placed after the try/catch instead of in finally: an
\* exception leaving the catch block skips it
loadingAfterCall_NoFinally(before, r) == IF r.escaped THEN before ELSE FALSE

\* finally { setLoading(false) }
loadingAfterCall(before, r) == FALSE

MaxCalls == 2

IdleCall == [pc |-> "idle", op |-> "none", outcome |-> FnOk(NoData),
             result |-> Resolved(NoData, NullVal, <<>>)]

WrapIdle ==
    /\ wLoading = FALSE
    /\ wCalls = [i \in 1..MaxCalls |-> IdleCall]
    /\ wToasts = <<>>

WrapInit == WrapIdle

\* query(fn) / mutate(fn) up to the await: setLoading(true), fn invoked
StartCall(i, op) ==
    /\ wCalls[i].pc = "idle"
    /\ wLoading' = TRUE
    /\ wCalls' = [wCalls EXCEPT ![i] = [@ EXCEPT !.pc = "awaiting", !.op = op]]
    /\ UNCHANGED <<wToasts, wrapOthers>>

StartQuery == \E i \in 1..MaxCalls : StartCall(i, "query")

StartMutate == \E i \in 1..MaxCalls : StartCall(i, "mutate")

\* fn settles: the rest of the try / catch / finally runs
SettleCall ==
    \E i \in 1..MaxCalls, o \in FnOutcomes :
        /\ wCalls[i].pc = "awaiting"
        /\ LET r == wrapperBody(wCalls[i].op, o)
           IN  /\ wCalls' = [wCalls EXCEPT ![i] =
                                [@ EXCEPT !.pc = IF r.escaped THEN "rejected" ELSE "resolved",
                                          !.outcome = o, !.result = r]]
               /\ wToasts' = wToasts \o r.toasts
               /\ wLoading' = loadingAfterCall(wLoading, r)
        /\ UNCHANGED wrapOthers

(***************************************************************************)
(* Data hooks: what each operation does with the wrapper's result          *)
(***************************************************************************)
\* op: the wrapper function used; onError: "transform" for
\* `throw transformError(error, context)`, "raw" for `throw error`,
\* "null" for `return null`
HookOp(name, op, onError, context) ==
    [name |-> name, op |-> op, onError |-> onError, context |-> context]

CrudHookOps == {
    HookOp("useCrud.list", "query", "transform", "fetching jobs"),
    HookOp("useCrud.create", "mutate", "transform", "creating jobs item"),
    HookOp("useCrud.update", "mutate", "transform", "updating jobs item"),
    HookOp("useCrud.delete", "mutate", "transform", "deleting jobs item"),
    HookOp("useSingleItem", "query", "transform", "fetching jobs item") }

FilesHookOps == {
    HookOp("useFiles.list", "query", "raw", "undefined"),
    HookOp("useFiles.createFile", "mutate", "raw", "undefined"),
    HookOp("useFiles.updateFile", "mutate", "raw", "undefined"),
    HookOp("useFiles.deleteFile", "mutate", "raw", "undefined"),
    HookOp("useFiles.getFiles", "query", "raw", "undefined") }

JobFilesHookOps == {
    HookOp("useJobFiles.createJobFile", "mutate", "raw", "undefined"),
    HookOp("useJobFiles.deleteJobFile", "mutate", "raw", "undefined") }

InvitationsHookOps == {
    HookOp("useUserInvitations.list", "query", "raw", "undefined"),
    HookOp("useUserInvitations.createInvitation", "mutate", "raw", "undefined"),
    HookOp("useUserInvitations.updateInvitationStatus", "mutate", "raw", "undefined"),
    HookOp("useUserInvitations.resendInvitation", "mutate", "raw", "undefined"),
    HookOp("useUserInvitations.revokeInvitation", "mutate", "raw", "undefined"),
    HookOp("useUserInvitations.getInvitationByToken", "query", "null", "undefined") }

HookOps == CrudHookOps \cup FilesHookOps \cup JobFilesHookOps \cup InvitationsHookOps

HookData(data) == [t |-> "data", data |-> data, error |-> NullVal]

HookError(error) == [t |-> "error", data |-> NoData, error |-> error]

\* const { data, error } = await query(fn); if (error) ...; return data
hookBody(h, o) ==
    LET r == wrapperBody(h.op, o)
    IN  IF r.escaped THEN HookError(r.thrown)
        ELSE IF r.error # NullVal
        THEN CASE h.onError = "transform" ->
                    LET t == transformError(r.error, h.context)
                    IN  IF t.threw THEN HookError(TypeErrorVal) ELSE HookError(t.val)
               [] h.onError = "raw" -> HookError(r.error)
               [] OTHER -> HookData(NoData)
        ELSE HookData(r.data)

HookIdle ==
    /\ dHook = HookOp("useCrud.list", "query", "transform", "fetching jobs")
    /\ dOutcome = FnOk(NoData)
    /\ dPc = "start"
    /\ dResult = HookData(NoData)

HookInit ==
    /\ dHook \in HookOps
    /\ dOutcome \in FnOutcomes
    /\ dPc = "start"
    /\ dResult = HookData(NoData)

\* the queryFn / mutationFn of the hook runs to its end
RunHook ==
    /\ dPc = "start"
    /\ dPc' = "done"
    /\ dResult' = hookBody(dHook, dOutcome)
    /\ UNCHANGED <<dHook, dOutcome, hookOthers>>

(***************************************************************************)
(* CRUD hook factory on the query cache.  One factory, built with          *)
(* tableName "jobs" and queryKey jobKeys.all; its list hook (useCrud) and  *)
(* its single-item hook (useSingleItem) are mounted by two components: a   *)
(* list view rendering useCrud(listOptions) and an item view rendering     *)
(* useSingleItem(id).                                                      *)
(***************************************************************************)
\* getBaseKey(): queryKey() for a function, [queryKey] for a string
baseKey == all("jobs")

\* listOptions?.filters ? [...baseKey, listOptions.filters] : baseKey
fullQueryKey(filters) ==
    IF filters.truthy THEN baseKey \o <<FltTok(filters)>> ELSE baseKey

\* buildQueryKey() of useSingleItem for a function queryKey
buildQueryKey(id) == baseKey \o <<StrTok("detail"), StrTok(id)>>

\* a mutation that invalidates the factory's lists() key, under which the
\* list hook stores nothing
invalidateKey_Lists == lists("jobs")

\* invalidateQueries(): const invalidateKey = getBaseKey()
invalidateKey == baseKey

ListFilters == {NoFilter, ObjFilter({<<"status", "AVAILABLE">>})}

\* the id handed to useSingleItem; "" stands for an absent id
ItemIds == {"", "7"}

ListKeys == {fullQueryKey(f) : f \in ListFilters}

DetailKeys == {buildQueryKey(id) : id \in ItemIds}

\* every key under which a hook of the factory caches a query
QueryKeys == ListKeys \cup DetailKeys

NoEntry == [exists |-> FALSE, hasData |-> FALSE, dataVersion |-> 0, error |-> NullVal,
            isInvalidated |-> FALSE, fetching |-> FALSE]

Unmounted == [mounted |-> FALSE, kind |-> "none", filters |-> NoFilter, id |-> "",
              key |-> <<>>, enabled |-> FALSE]

NoMutation == [pc |-> "idle", kind |-> "none", error |-> NullVal]

Components == {"listView", "itemView"}

MaxVersion == 1

\* the observers of a query: mounted hook instances with that key whose
\* query is enabled
IsActive(hooks, k) ==
    \E c \in Components : hooks[c].mounted /\ hooks[c].enabled /\ hooks[c].key = k

\* a fetch starts: a query without data goes back to pending and drops its
\* error, a query with data keeps showing it
startFetch(entry) ==
    [entry EXCEPT !.fetching = TRUE,
                  !.error = IF entry.hasData THEN @ ELSE NullVal]

\* useQuery on mount: build the query if it is new, and fetch when it is
\* enabled and has no data or is invalidated
observe(entry, enabled) ==
    IF enabled /\ (~entry.hasData \/ entry.isInvalidated)
    THEN startFetch([entry EXCEPT !.exists = TRUE])
    ELSE [entry EXCEPT !.exists = TRUE]

\* queryClient.invalidateQueries({queryKey: prefix}): every query whose key
\* starts with prefix is marked invalidated, the active ones refetch
invalidateQueries(cache, hooks, prefix) ==
    [k \in QueryKeys |->
        IF cache[k].exists /\ IsPrefix(prefix, k)
        THEN IF IsActive(hooks, k)
             THEN startFetch([cache[k] EXCEPT !.isInvalidated = TRUE])
             ELSE [cache[k] EXCEPT !.isInvalidated = TRUE]
        ELSE cache[k]]

\* what the backend call of a fetch or a mutation may do here
CrudOutcomes == {FnOk(Rows("snake")), FnError(PostgrestErrorVal(<<"permission denied">>))}

MutationKinds == {"create", "update", "delete"}

mutationOp(kind) ==
    CASE kind = "create" -> HookOp("useCrud.create", "mutate", "transform", "creating jobs item")
      [] kind = "update" -> HookOp("useCrud.update", "mutate", "transform", "updating jobs item")
      [] OTHER -> HookOp("useCrud.delete", "mutate", "transform", "deleting jobs item")

fetchOp(k) ==
    IF k \in DetailKeys /\ k \notin ListKeys
    THEN HookOp("useSingleItem", "query", "transform", "fetching jobs item")
    ELSE HookOp("useCrud.list", "query", "transform", "fetching jobs")

CrudIdle ==
    /\ qCache = [k \in QueryKeys |-> NoEntry]
    /\ qHooks = [c \in Components |-> Unmounted]
    /\ qMutation = NoMutation
    /\ qBackend = 0

CrudInit == CrudIdle

\* the list view renders useCrud({filters})
MountList ==
    \E f \in ListFilters :
        /\ ~qHooks["listView"].mounted
        /\ LET k == fullQueryKey(f)
           IN  /\ qHooks' = [qHooks EXCEPT !["listView"] =
                                [mounted |-> TRUE, kind |-> "list", filters |-> f, id |-> "",
                                 key |-> k, enabled |-> TRUE]]
               /\ qCache' = [qCache EXCEPT ![k] = observe(@, TRUE)]
        /\ UNCHANGED <<qMutation, qBackend, crudOthers>>

\* a single-item query that is enabled whatever its id
enabled_Always(id) == TRUE

\* enabled: !!id
enabled(id) == id # ""

\* the item view renders useSingleItem(id)
MountSingle ==
    \E id \in ItemIds :
        /\ ~qHooks["itemView"].mounted
        /\ LET k == buildQueryKey(id)
           IN  /\ qHooks' = [qHooks EXCEPT !["itemView"] =
                                [mounted |-> TRUE, kind |-> "single", filters |-> NoFilter,
                                 id |-> id, key |-> k, enabled |-> enabled(id)]]
               /\ qCache' = [qCache EXCEPT ![k] = observe(@, enabled(id))]
        /\ UNCHANGED <<qMutation, qBackend, crudOthers>>

Unmount ==
    \E c \in Components :
        /\ qHooks[c].mounted
        /\ qHooks' = [qHooks EXCEPT ![c] = Unmounted]
        /\ UNCHANGED <<qCache, qMutation, qBackend, crudOthers>>

\* the query cache on a fetch that resolved: the data replaces what was there
onFetchSuccess(entry, version) ==
    [entry EXCEPT !.hasData = TRUE, !.dataVersion = version, !.error = NullVal,
                  !.isInvalidated = FALSE, !.fetching = FALSE]

\* a cache that drops the data of a query whose fetch failed
onFetchError_DropsData(entry, error) ==
    [entry EXCEPT !.error = error, !.fetching = FALSE, !.hasData = FALSE, !.dataVersion = 0]

\* the query cache on a fetch that threw: the error is stored, the data stays
onFetchError(entry, error) ==
    [entry EXCEPT !.error = error, !.fetching = FALSE]

\* the queryFn of a fetching query settles: data, or the error it threw
SettleFetch ==
    \E k \in QueryKeys, o \in CrudOutcomes :
        /\ qCache[k].fetching
        /\ LET r == hookBody(fetchOp(k), o)
           IN  qCache' = [qCache EXCEPT ![k] =
                    IF r.t = "data"
                    THEN onFetchSuccess(@, qBackend)
                    ELSE onFetchError(@, r.error)]
        /\ UNCHANGED <<qHooks, qMutation, qBackend, crudOthers>>

\* refetchOnWindowFocus: 'always': the window regains focus and every
\* query with an enabled observer refetches
FocusWindow ==
    /\ \E k \in QueryKeys : IsActive(qHooks, k) /\ ~qCache[k].fetching
    /\ qCache' = [k \in QueryKeys |->
                    IF IsActive(qHooks, k) THEN startFetch(qCache[k]) ELSE qCache[k]]
    /\ UNCHANGED <<qHooks, qMutation, qBackend, crudOthers>>

\* createItem / updateItem / deleteItem of the mounted list hook
StartMutation ==
    \E kind \in MutationKinds :
        /\ qHooks["listView"].mounted
        /\ qMutation.pc # "pending"
        /\ qBackend < MaxVersion
        /\ qMutation' = [pc |-> "pending", kind |-> kind, error |-> NullVal]
        /\ UNCHANGED <<qCache, qHooks, qBackend, crudOthers>>

\* the mutationFn settles; onSuccess: invalidateQueries
SettleMutation ==
    \E o \in CrudOutcomes :
        /\ qMutation.pc = "pending"
        /\ LET r == hookBody(mutationOp(qMutation.kind), o)
           IN  IF r.t = "data"
               THEN /\ qMutation' = [qMutation EXCEPT !.pc = "success"]
                    /\ qBackend' = qBackend + 1
                    /\ qCache' = invalidateQueries(qCache, qHooks, invalidateKey)
               ELSE /\ qMutation' = [qMutation EXCEPT !.pc = "error", !.error = r.error]
                    /\ UNCHANGED <<qBackend, qCache>>
        /\ UNCHANGED <<qHooks, crudOthers>>

(***************************************************************************)
(* useErrorHandler: handle, clearError, createHandlers                     *)
(***************************************************************************)
\* the options of the hook; hasOnError: an onError callback was given
HandlerOptions ==
    [showToast : BOOLEAN, logErrors : BOOLEAN, hasOnError : BOOLEAN,
     redirectOnAuthError : BOOLEAN]

\* a value with the auth provider's marker, as the auth client rejects with
AuthErrorVal(m) == Val("object", TRUE, "string", m, TRUE, TRUE, FALSE, FALSE, FALSE, <<>>)

\* { code, message: 42 }: database-shaped, its message is no string
NumericMessageVal == Val("object", TRUE, "number", <<>>, FALSE, FALSE, FALSE, FALSE, TRUE, <<>>)

\* the values handed to handle() or thrown by a wrapped operation
HandlerInputs == {
    ErrorVal(<<"Test error">>),
    ErrorVal(<<"Failed to fetch">>),
    AuthErrorVal(<<"Invalid login credentials">>),
    PostgrestErrorVal(<<"permission denied">>),
    AuthenticationError(<<"Invalid credentials">>, FALSE),
    PermissionError(<<"Access denied">>, "undefined"),
    ValidationError(<<"Invalid input">>),
    FileUploadError(<<"Upload failed">>, "undefined"),
    DatabaseError(<<"Database error">>, FALSE),
    StringVal(<<"Test error">>),
    NullVal,
    NumericMessageVal }

HandlerContexts == {"undefined", "fetching jobs"}

\* the title of the toast in each case of the switch
toastTitle(type) ==
    CASE type = "PERMISSION" -> "Access Denied"
      [] type = "NETWORK" -> "Connection Error"
      [] type = "VALIDATION" -> "Validation Error"
      [] type = "FILE_UPLOAD" -> "Upload Error"
      [] type = "DATABASE" -> "Database Error"
      [] OTHER -> "Error"

\* the switch with its toasts issued whatever showToast says
toastsOf_NoOptOut(options, appError) ==
    IF appError.kind = "AUTH" THEN <<>>
    ELSE <<Toast(toastTitle(appError.kind), appError.msg)>>

\* switch (appError.type): the toasts one handle() call issues
toastsOf(options, appError) ==
    IF appError.kind = "AUTH" THEN <<>>
    ELSE IF options.showToast
    THEN <<Toast(toastTitle(appError.kind), appError.msg)>>
    ELSE <<>>

\* case ErrorType.AUTH: if (redirectOnAuthError) router.push('/login')
pushesOf(options, appError) ==
    IF appError.kind = "AUTH" /\ options.redirectOnAuthError THEN 1 ELSE 0

\* what one operation of the hook did: handled says that handle() ran to
\* its return, threw that the operation ended by throwing
OpRecord(op, input, handled, threw, result, toasts, pushes, onErrors) ==
    [op |-> op, input |-> input, handled |-> handled, threw |-> threw, result |-> result,
     toasts |-> toasts, pushes |-> pushes, onErrors |-> onErrors]

NoOp == OpRecord("none", NullVal, FALSE, FALSE, NullVal, <<>>, 0, 0)

\* handle(error, context): transformError first; when it throws nothing
\* else of handle runs
handle(options, error, context) ==
    LET t == transformError(error, context)
    IN  IF t.threw
        THEN [rec |-> OpRecord("handle", error, FALSE, TRUE, TypeErrorVal, <<>>, 0, 0),
              set |-> FALSE, logs |-> 0]
        ELSE [rec |-> OpRecord("handle", error, TRUE, FALSE, t.val,
                               toastsOf(options, t.val), pushesOf(options, t.val),
                               IF options.hasOnError THEN 1 ELSE 0),
              set |-> TRUE,
              logs |-> IF options.logErrors THEN 1 ELSE 0]

MaxOps == 2

HandlerIdle ==
    /\ hOptions = [showToast |-> TRUE, logErrors |-> TRUE, hasOnError |-> FALSE,
                   redirectOnAuthError |-> TRUE]
    /\ hLastError = NullVal
    /\ hIsError = FALSE
    /\ hToasts = <<>>
    /\ hPushes = 0
    /\ hLogs = 0
    /\ hCalls = 0
    /\ hLast = NoOp

\* useErrorHandler(options): useState(null), useState(false)
HandlerInit ==
    /\ hOptions \in HandlerOptions
    /\ hLastError = NullVal
    /\ hIsError = FALSE
    /\ hToasts = <<>>
    /\ hPushes = 0
    /\ hLogs = 0
    /\ hCalls = 0
    /\ hLast = NoOp

\* a component calls handle(error, context)
Handle ==
    \E error \in HandlerInputs, context \in HandlerContexts :
        /\ hCalls < MaxOps
        /\ LET r == handle(hOptions, error, context)
           IN  /\ hLast' = r.rec
               /\ hLastError' = IF r.set THEN r.rec.result ELSE hLastError
               /\ hIsError' = IF r.set THEN TRUE ELSE hIsError
               /\ hToasts' = hToasts \o r.rec.toasts
               /\ hPushes' = hPushes + r.rec.pushes
               /\ hLogs' = hLogs + r.logs
        /\ hCalls' = hCalls + 1
        /\ UNCHANGED <<hOptions, handlerOthers>>

\* clearError()
ClearError ==
    /\ hCalls < MaxOps
    /\ hLastError' = NullVal
    /\ hIsError' = FALSE
    /\ hLast' = OpRecord("clearError", NullVal, FALSE, FALSE, NullVal, <<>>, 0, 0)
    /\ hCalls' = hCalls + 1
    /\ UNCHANGED <<hOptions, hToasts, hPushes, hLogs, handlerOthers>>

\* what the operation wrapped by createHandlers(operation, {context}) does
OperationOutcomes == {FnOk(Rows("camel"))} \cup {FnThrow(v) : v \in HandlerInputs}

\* createHandlers(...).execute(): clearError, then the operation; on a
\* throw, handle(error, context) and throw appError
Execute ==
    \E o \in OperationOutcomes, context \in HandlerContexts :
        /\ hCalls < MaxOps
        /\ IF o.t = "ok"
           THEN /\ hLast' = OpRecord("execute", NullVal, FALSE, FALSE, NullVal, <<>>, 0, 0)
                /\ hLastError' = NullVal
                /\ hIsError' = FALSE
                /\ UNCHANGED <<hToasts, hPushes, hLogs>>
           ELSE LET r == handle(hOptions, o.error, context)
                IN  /\ hLast' = [r.rec EXCEPT !.op = "execute", !.threw = TRUE]
                    /\ hLastError' = IF r.set THEN r.rec.result ELSE NullVal
                    /\ hIsError' = r.set
                    /\ hToasts' = hToasts \o r.rec.toasts
                    /\ hPushes' = hPushes + r.rec.pushes
                    /\ hLogs' = hLogs + r.logs
        /\ hCalls' = hCalls + 1
        /\ UNCHANGED <<hOptions, handlerOthers>>

\* createHandlers(...).executeQuietly(): clearError, then the operation; on
\* a throw, transformError, setLastError, setIsError and return null
ExecuteQuietly ==
    \E o \in OperationOutcomes, context \in HandlerContexts :
        /\ hCalls < MaxOps
        /\ IF o.t = "ok"
           THEN /\ hLast' = OpRecord("executeQuietly", NullVal, FALSE, FALSE, NullVal, <<>>, 0, 0)
                /\ hLastError' = NullVal
                /\ hIsError' = FALSE
           ELSE LET t == transformError(o.error, context)
                IN  /\ hLast' = OpRecord("executeQuietly", o.error, FALSE, t.threw,
                                         IF t.threw THEN TypeErrorVal ELSE NullVal, <<>>, 0, 0)
                    /\ hLastError' = IF t.threw THEN NullVal ELSE t.val
                    /\ hIsError' = ~t.threw
        /\ hCalls' = hCalls + 1
        /\ UNCHANGED <<hOptions, hToasts, hPushes, hLogs, handlerOthers>>

(***************************************************************************)
(* useSmartLoading.  Time is a discrete clock; a render together with the  *)
(* effects it triggers is one step.                                        *)
(***************************************************************************)
MaxTimers == 2

TimerIds == 1..MaxTimers

\* loadingDelay, in clock units
Delays == {1, 2}

SmartOptions ==
    [isDataQuery : BOOLEAN, loadingDelay : Delays, showBackgroundRefetch : BOOLEAN]

\* isLoading, isFetching, hasData: any combination may be handed in
SmartInputs == [isLoading : BOOLEAN, isFetching : BOOLEAN, hasData : BOOLEAN]

\* const isInitialLoad = isLoading && !hasLoadedOnce && isDataQuery
isInitialLoad(in, loaded, opts) == in.isLoading /\ ~loaded /\ opts.isDataQuery

\* const isBackgroundRefetch = isFetching && hasData && hasLoadedOnce
isBackgroundRefetch(in, loaded) == in.isFetching /\ in.hasData /\ loaded

\* a show condition that counts every background refetch
shouldShow_AnyRefetch(in, loaded, opts) ==
    isInitialLoad(in, loaded, opts) \/ isBackgroundRefetch(in, loaded)

\* const shouldShow = isInitialLoad || (showBackgroundRefetch && isBackgroundRefetch)
shouldShow(in, loaded, opts) ==
    isInitialLoad(in, loaded, opts)
        \/ (opts.showBackgroundRefetch /\ isBackgroundRefetch(in, loaded))

\* a dependency array that leaves isInitialLoad out
depsOf_NoInitialLoad(in, loaded, opts) == <<FALSE, isBackgroundRefetch(in, loaded)>>

\* the dependency array of the delay effect (the options do not change)
depsOf(in, loaded, opts) == <<isInitialLoad(in, loaded, opts), isBackgroundRefetch(in, loaded)>>

\* a first effect that follows hasData down again
markLoaded_FollowsData(in, loaded) == in.hasData

\* if (hasData && !hasLoadedOnce) setHasLoadedOnce(true)
markLoaded(in, loaded) == IF in.hasData /\ ~loaded THEN TRUE ELSE loaded

NoTimer == [pending |-> FALSE, remaining |-> 0]

\* if (loadingTimeoutRef.current) clearTimeout(loadingTimeoutRef.current)
clearTimeout(timers, ref) ==
    IF ref = 0 THEN timers ELSE [timers EXCEPT ![ref] = NoTimer]

\* timer ids are not handed out twice in a row: the id of a new timer
\* differs from the one the ref still holds
nextTimerId(timers, ref) ==
    CHOOSE id \in TimerIds :
        /\ ~timers[id].pending /\ id # ref
        /\ \A j \in TimerIds : (~timers[j].pending /\ j # ref) => id <= j

\* a timeout of twice the delay
timeoutDelay_Double(opts) == 2 * opts.loadingDelay

\* setTimeout(..., loadingDelay)
timeoutDelay(opts) == opts.loadingDelay

\* what the delay effect reads and writes
EffectState(show, timers, ref) == [show |-> show, timers |-> timers, ref |-> ref]

\* a delay effect whose else branch leaves the indicator as it is
effectBody_NeverHides(st, in, loaded, opts) ==
    LET cleared == clearTimeout(st.timers, st.ref)
        id == nextTimerId(cleared, st.ref)
    IN  IF shouldShow(in, loaded, opts)
        THEN EffectState(st.show,
                         [cleared EXCEPT ![id] = [pending |-> TRUE, remaining |-> timeoutDelay(opts)]],
                         id)
        ELSE EffectState(st.show, cleared, st.ref)

\* the body of the delay effect: clear the timer the ref holds, then arm a
\* new one when the indicator should show, hide the indicator otherwise
effectBody(st, in, loaded, opts) ==
    LET cleared == clearTimeout(st.timers, st.ref)
        id == nextTimerId(cleared, st.ref)
    IN  IF shouldShow(in, loaded, opts)
        THEN EffectState(st.show,
                         [cleared EXCEPT ![id] = [pending |-> TRUE, remaining |-> timeoutDelay(opts)]],
                         id)
        ELSE EffectState(FALSE, cleared, st.ref)

\* a cleanup that leaves the timer running
cleanup_NoClear(st) == st

\* the cleanup the delay effect returns
cleanup(st) == EffectState(st.show, clearTimeout(st.timers, st.ref), st.ref)

\* one render with arguments in: the effects run in order, and when
\* hasLoadedOnce was set the component renders again and the delay effect
\* runs once more if its dependencies changed.  first: the mounting render,
\* whose effect runs whatever the dependencies and has no cleanup before it.
commit(st, deps, first, in, loaded, opts) ==
    LET d1 == depsOf(in, loaded, opts)
        st1 == IF first THEN effectBody(st, in, loaded, opts)
               ELSE IF d1 # deps THEN effectBody(cleanup(st), in, loaded, opts)
               ELSE st
        l1 == markLoaded(in, loaded)
        d2 == depsOf(in, l1, opts)
        st2 == IF d2 # d1 THEN effectBody(cleanup(st1), in, l1, opts) ELSE st1
    IN  [st |-> st2, deps |-> d2, loaded |-> l1]

MaxAge == 3

NoAge == [init |-> 0, bg |-> 0, cond |-> 0]

\* the ages after a render: a condition keeps its age only if it held in
\* every render of the step
agesAfter(age, in, loaded, l1, opts) ==
    [init |-> IF isInitialLoad(in, loaded, opts) /\ isInitialLoad(in, l1, opts)
              THEN age.init ELSE 0,
     bg   |-> IF isBackgroundRefetch(in, loaded) /\ isBackgroundRefetch(in, l1)
              THEN age.bg ELSE 0,
     cond |-> IF shouldShow(in, loaded, opts) /\ shouldShow(in, l1, opts)
              THEN age.cond ELSE 0]

Older(n) == IF n < MaxAge THEN n + 1 ELSE n

SmartIdle ==
    /\ smOpts = [isDataQuery |-> TRUE, loadingDelay |-> 2, showBackgroundRefetch |-> FALSE]
    /\ smIn = [isLoading |-> FALSE, isFetching |-> FALSE, hasData |-> FALSE]
    /\ smMounted = "new"
    /\ smShow = FALSE
    /\ smLoaded = FALSE
    /\ smTimers = [id \in TimerIds |-> NoTimer]
    /\ smRef = 0
    /\ smDeps = <<FALSE, FALSE>>
    /\ smAge = NoAge
    /\ smHid = FALSE

\* useState(false), useState(false), useRef(undefined)
SmartInit ==
    /\ smOpts \in SmartOptions
    /\ smIn = [isLoading |-> FALSE, isFetching |-> FALSE, hasData |-> FALSE]
    /\ smMounted = "new"
    /\ smShow = FALSE
    /\ smLoaded = FALSE
    /\ smTimers = [id \in TimerIds |-> NoTimer]
    /\ smRef = 0
    /\ smDeps = <<FALSE, FALSE>>
    /\ smAge = NoAge
    /\ smHid = FALSE

SmartCommit(in, first) ==
    LET c == commit(EffectState(smShow, smTimers, smRef), smDeps, first, in, smLoaded, smOpts)
    IN  /\ smIn' = in
        /\ smShow' = c.st.show
        /\ smTimers' = c.st.timers
        /\ smRef' = c.st.ref
        /\ smDeps' = c.deps
        /\ smLoaded' = c.loaded
        /\ smAge' = agesAfter(smAge, in, smLoaded, c.loaded, smOpts)
        /\ smHid' = (smShow /\ ~c.st.show)

\* the component mounts: first render and first run of the effects
SmartMount ==
    \E in \in SmartInputs :
        /\ smMounted = "new"
        /\ smMounted' = "mounted"
        /\ SmartCommit(in, TRUE)
        /\ UNCHANGED <<smOpts, smartOthers>>

\* the component renders with new arguments
SmartRender ==
    \E in \in SmartInputs :
        /\ smMounted = "mounted"
        /\ in # smIn
        /\ SmartCommit(in, FALSE)
        /\ UNCHANGED <<smOpts, smMounted, smartOthers>>

\* one unit of time passes: a pending timer that runs out fires and calls
\* setShouldShowLoading(true)
SmartTick ==
    /\ smMounted # "new"
    /\ LET fires(id) == smTimers[id].pending /\ smTimers[id].remaining = 1
       IN  /\ smTimers' = [id \in TimerIds |->
                            IF ~smTimers[id].pending \/ fires(id) THEN NoTimer
                            ELSE [smTimers[id] EXCEPT !.remaining = @ - 1]]
           /\ smShow' = IF \E id \in TimerIds : fires(id) THEN TRUE ELSE smShow
    /\ smAge' = IF smMounted = "mounted"
                THEN [init |-> IF isInitialLoad(smIn, smLoaded, smOpts)
                               THEN Older(smAge.init) ELSE 0,
                      bg   |-> IF isBackgroundRefetch(smIn, smLoaded)
                               THEN Older(smAge.bg) ELSE 0,
                      cond |-> IF shouldShow(smIn, smLoaded, smOpts)
                               THEN Older(smAge.cond) ELSE 0]
                ELSE smAge
    /\ smHid' = FALSE
    /\ UNCHANGED <<smOpts, smIn, smMounted, smLoaded, smRef, smDeps, smartOthers>>

\* the component unmounts: the cleanup of the delay effect runs
SmartUnmount ==
    /\ smMounted = "mounted"
    /\ smMounted' = "unmounted"
    /\ smTimers' = cleanup(EffectState(smShow, smTimers, smRef)).timers
    /\ smAge' = NoAge
    /\ smHid' = FALSE
    /\ UNCHANGED <<smOpts, smIn, smShow, smLoaded, smRef, smDeps, smartOthers>>

\* the components added after the first six, at rest
(***************************************************************************)
(* Retry policy of the query client (createQueryClient defaultOptions),    *)
(* applied to what a hook's queryFn / mutationFn throws.  The retryer      *)
(* calls retry(failureCount, error) after each failure, failureCount being *)
(* the number of failures before this one, and waits retryDelay of the     *)
(* same count before running the function again.                           *)
(***************************************************************************)
\* failureCount < 3
QueryRetryLimit == 3

\* 1000 * 2 ** attemptIndex, at most 30000
RetryBaseDelay == 1000

RetryMaxDelay == 30000

\* mutations: retry: 1, retryDelay: 1000
MutationRetry == 1

MutationRetryDelay == 1000

\* how the backend fails a request: the status of the HTTP response (0 when
\* there was none) and what the data client function hands back for it
Failure(status, outcome) == [status |-> status, outcome |-> outcome]

Failures == {
    Failure(400, FnError(PostgrestErrorVal(<<"not-null constraint">>))),
    Failure(401, FnError(AuthErrorVal(<<"Invalid login credentials">>))),
    Failure(403, FnError(PostgrestErrorVal(<<"permission denied">>))),
    Failure(500, FnError(PostgrestErrorVal(<<"Test error">>))),
    Failure(500, FnError(AuthErrorVal(<<"Test error">>))),
    Failure(0, FnThrow(ErrorVal(<<"Failed to fetch">>))) }

RetryHooks == CrudHookOps \cup FilesHookOps \cup JobFilesHookOps

\* what the retryer is given: the value the hook's function threw
thrownBy(h, failure) == hookBody(h, failure.outcome).error

\* error.status as the retry function reads it: the response status when
\* the thrown value has a status property, undefined (0) when it has none
statusOf(h, failure) == IF thrownBy(h, failure).status THEN failure.status ELSE 0

Min(a, b) == IF a <= b THEN a ELSE b

\* a retry function without the 4xx test
retryQuery_Always(failureCount, status) == failureCount < QueryRetryLimit

\* retry: (failureCount, error) => ...
retryQuery(failureCount, status) ==
    IF status # 0 /\ status >= 400 /\ status < 500 THEN FALSE
    ELSE failureCount < QueryRetryLimit

\* retryDelay: (attemptIndex) => Math.min(1000 * 2 ** attemptIndex, 30000)
retryDelay(attemptIndex) == Min(RetryBaseDelay * 2 ^ attemptIndex, RetryMaxDelay)

\* the default options by kind of operation
shouldRetry(h, failureCount, status) ==
    IF h.op = "query" THEN retryQuery(failureCount, status)
    ELSE failureCount < MutationRetry

delayBeforeRetry(h, failureCount) ==
    IF h.op = "query" THEN retryDelay(failureCount) ELSE MutationRetryDelay

RetryIdle ==
    /\ rHook = HookOp("useCrud.list", "query", "transform", "fetching jobs")
    /\ rFailure = Failure(0, FnThrow(ErrorVal(<<"Failed to fetch">>)))
    /\ rPc = "idle"
    /\ rFailureCount = 0
    /\ rAttempts = 0
    /\ rDelays = <<>>

RetryInit ==
    /\ rHook \in RetryHooks
    /\ rFailure \in Failures
    /\ rPc = "idle"
    /\ rFailureCount = 0
    /\ rAttempts = 0
    /\ rDelays = <<>>

\* the query is fetched / the mutation is fired: first run of the function
RetryStart ==
    /\ rPc = "idle"
    /\ rPc' = "running"
    /\ rAttempts' = 1
    /\ UNCHANGED <<rHook, rFailure, rFailureCount, rDelays, retryOthers>>

\* the run fails: the retryer asks the policy and either waits or gives up
AttemptFails ==
    /\ rPc = "running"
    /\ IF shouldRetry(rHook, rFailureCount, statusOf(rHook, rFailure))
       THEN /\ rPc' = "waiting"
            /\ rDelays' = Append(rDelays, delayBeforeRetry(rHook, rFailureCount))
            /\ rFailureCount' = rFailureCount + 1
       ELSE /\ rPc' = "failed"
            /\ UNCHANGED <<rDelays, rFailureCount>>
    /\ UNCHANGED <<rHook, rFailure, rAttempts, retryOthers>>

\* the failure was transient: a later run succeeds
AttemptSucceeds ==
    /\ rPc = "running"
    /\ rAttempts > 1
    /\ rPc' = "succeeded"
    /\ UNCHANGED <<rHook, rFailure, rFailureCount, rAttempts, rDelays, retryOthers>>

\* the delay is over: the function runs again
RetryWake ==
    /\ rPc = "waiting"
    /\ rPc' = "running"
    /\ rAttempts' = rAttempts + 1
    /\ UNCHANGED <<rHook, rFailure, rFailureCount, rDelays, retryOthers>>

(***************************************************************************)
(* Two list keys of one entity.  A filter argument is an object literal    *)
(* with its own reference and its properties in the order they were        *)
(* written; a key holds the object itself, and keys are compared by        *)
(* content (the cache hashes a key with the properties of its objects      *)
(* sorted, the tests compare with toEqual).                                *)
(***************************************************************************)
FilterArg(ref, props) == [ref |-> ref, props |-> props]

\* list() called without an argument
NoArg == FilterArg(0, <<>>)

PropLists ==
    {ps \in UNION {[1..n -> FilterPairs] : n \in 0..MaxFilterKeys} :
        \A i \in DOMAIN ps, j \in DOMAIN ps : ps[i][1] = ps[j][1] => i = j}

FilterArgs(ref) == {NoArg} \cup {FilterArg(ref, ps) : ps \in PropLists}

\* the content of the filter token of a key: neither the reference nor the
\* order of the properties is part of it
filterToken(arg) ==
    IF arg.ref = 0 THEN NoFilter
    ELSE ObjFilter({arg.props[i] : i \in DOMAIN arg.props})

CmpIdle ==
    /\ cEntity = "users"
    /\ cF1 = NoArg
    /\ cF2 = NoArg
    /\ cPc = "start"
    /\ cKey1 = <<>>
    /\ cKey2 = <<>>

CmpInit ==
    /\ cEntity \in ListEntities
    /\ cF1 \in FilterArgs(1)
    /\ cF2 \in FilterArgs(2)
    /\ cPc = "start"
    /\ cKey1 = <<>>
    /\ cKey2 = <<>>

\* queryKeys[entity].list(f1) and queryKeys[entity].list(f2)
BuildListKeys ==
    /\ cPc = "start"
    /\ cPc' = "done"
    /\ cKey1' = list(cEntity, filterToken(cF1), "")
    /\ cKey2' = list(cEntity, filterToken(cF2), "")
    /\ UNCHANGED <<cEntity, cF1, cF2, cmpOthers>>

(***************************************************************************)
(* formatRelativeDate.  Time is counted in hours instead of milliseconds;  *)
(* a text is the fixed word, or the count, the unit and the plural "s" of  *)
(* the template `${n} unit${n === 1 ? '' : 's'} ago`.                      *)
(***************************************************************************)
\* 1000 * 60 * 60 * 24 ms
HoursPerDay == 24

DaysPerWeek == 7

DaysPerMonth == 30

DaysPerYear == 365

FixedText(word) == [text |-> word, count |-> 0, unit |-> "", plural |-> FALSE]

\* a template that always appends the "s"
AgoText_AlwaysPlural(n, unit) == [text |-> "ago", count |-> n, unit |-> unit, plural |-> TRUE]

AgoText(n, unit) == [text |-> "ago", count |-> n, unit |-> unit, plural |-> n # 1]

\* Math.floor(diffInMs / (1000 * 60 * 60 * 24)); \div rounds down as
\* Math.floor does, for negative differences too
diffInDays(now, then) == (now - then) \div HoursPerDay

formatRelativeDate(now, then) ==
    LET d == diffInDays(now, then)
    IN  IF d = 0 THEN FixedText("Today")
        ELSE IF d = 1 THEN FixedText("Yesterday")
        ELSE IF d < DaysPerWeek THEN AgoText(d, "day")
        ELSE IF d < DaysPerMonth THEN AgoText(d \div DaysPerWeek, "week")
        ELSE IF d < DaysPerYear THEN AgoText(d \div DaysPerMonth, "month")
        ELSE AgoText(d \div DaysPerYear, "year")

\* the oldest date tried, in days before now, and the latest, in days after
MaxDays == 740

MaxFutureDays == 2

NowHours == MaxDays * HoursPerDay + 12

FmtIdle ==
    /\ fNow = NowHours
    /\ fThen = NowHours
    /\ fPc = "start"
    /\ fOut = FixedText("")

FmtInit ==
    /\ fNow = NowHours
    /\ fThen \in 0 .. (NowHours + MaxFutureDays * HoursPerDay)
    /\ fPc = "start"
    /\ fOut = FixedText("")

FormatDate ==
    /\ fPc = "start"
    /\ fPc' = "done"
    /\ fOut' = formatRelativeDate(fNow, fThen)
    /\ UNCHANGED <<fNow, fThen, fmtOthers>>

(***************************************************************************)
(* The list fetch of useCrud: the backend query its queryFn builds from    *)
(* listOptions, next to the cache key the same options give.               *)
(***************************************************************************)
\* limit?: number, offset?: number
Absent == [given |-> FALSE, n |-> 0]

Num(n) == [given |-> TRUE, n |-> n]

\* a number in a condition: undefined and 0 are falsy
truthy(num) == num.given /\ num.n # 0

NoOrder == [given |-> FALSE, column |-> "", ascending |-> TRUE]

\* orderBy?: { column, ascending = true }
OrderBy(column, ascending) == [given |-> TRUE, column |-> column, ascending |-> ascending]

MaxLimit == 2

MaxOffset == 2

\* listOptions.offset + (listOptions.limit || 10) - 1
DefaultLimit == 10

\* "null" stands for a filter value that is null or undefined
QueryFilters == {NoFilter, ObjFilter({<<"status", "AVAILABLE">>}),
                 ObjFilter({<<"ownerId", "7">>}), ObjFilter({<<"status", "null">>})}

Orders == {NoOrder, OrderBy("createdAt", TRUE), OrderBy("createdAt", FALSE)}

ListOptions ==
    [filters : QueryFilters, orderBy : Orders,
     limit : {Absent} \cup {Num(n) : n \in 1..MaxLimit},
     offset : {Absent} \cup {Num(n) : n \in 0..MaxOffset}]

\* decamelizeKeys on one key: camelCase to snake_case
decamelize(name) ==
    CASE name = "createdAt" -> "created_at"
      [] name = "ownerId" -> "owner_id"
      [] OTHER -> name

\* queryBuilder.eq(dbKey, value) for every entry that is neither undefined
\* nor null
eqsOf(filters) ==
    IF filters.truthy
    THEN {<<decamelize(p[1]), p[2]>> : p \in {q \in filters.obj : q[2] # "null"}}
    ELSE {}

\* queryBuilder.order(dbColumn, { ascending })
orderOf(orderBy) ==
    IF orderBy.given THEN OrderBy(decamelize(orderBy.column), orderBy.ascending) ELSE NoOrder

Unbounded == [bounded |-> FALSE, from |-> 0, to |-> 0]

RowRange(from, to) == [bounded |-> TRUE, from |-> from, to |-> to]

\* the rows asked for: limit(n) asks for rows 0..n-1, a later range(from, to)
\* replaces it
rangeOf(limit, offset) ==
    LET limited == IF truthy(limit) THEN RowRange(0, limit.n - 1) ELSE Unbounded
    IN  IF truthy(offset)
        THEN RowRange(offset.n,
                      offset.n + (IF truthy(limit) THEN limit.n ELSE DefaultLimit) - 1)
        ELSE limited

\* the query built inside queryFn
backendQuery(options) ==
    [table |-> "jobs", eqs |-> eqsOf(options.filters), order |-> orderOf(options.orderBy),
     range |-> rangeOf(options.limit, options.offset)]

NoOptions == [filters |-> NoFilter, orderBy |-> NoOrder, limit |-> Absent, offset |-> Absent]

LqIdle ==
    /\ lOptions1 = NoOptions
    /\ lOptions2 = NoOptions
    /\ lPc = "start"
    /\ lKey1 = <<>>
    /\ lKey2 = <<>>
    /\ lQuery1 = backendQuery(NoOptions)
    /\ lQuery2 = backendQuery(NoOptions)

LqInit ==
    /\ lOptions1 \in ListOptions
    /\ lOptions2 \in ListOptions
    /\ lPc = "start"
    /\ lKey1 = <<>>
    /\ lKey2 = <<>>
    /\ lQuery1 = backendQuery(NoOptions)
    /\ lQuery2 = backendQuery(NoOptions)

\* both instances render and fetch: each builds its key and its query
FetchLists ==
    /\ lPc = "start"
    /\ lPc' = "done"
    /\ lKey1' = fullQueryKey(lOptions1.filters)
    /\ lKey2' = fullQueryKey(lOptions2.filters)
    /\ lQuery1' = backendQuery(lOptions1)
    /\ lQuery2' = backendQuery(lOptions2)
    /\ UNCHANGED <<lOptions1, lOptions2, lqOthers>>

(***************************************************************************)
(* The update mutation of useCrud: from the caller's { id, ...updates } to *)
(* the payload handed to update().  A value is a scalar, an array or a     *)
(* plain object; of an object only the format of its keys is kept.         *)
(***************************************************************************)
ScalarValue == [kind |-> "scalar", keys |-> "none"]

ArrayValue == [kind |-> "array", keys |-> "none"]

ObjectValue(keys) == [kind |-> "object", keys |-> keys]

relationKeys == {"managers", "organisation", "organization", "owner", "contractor",
                 "location", "createdByUser", "updatedByUser", "deletedByUser",
                 "jobHistories", "jobFiles"}

\* the keys a caller's update may carry: columns, a JSON column, relations
UpdateKeys == {"status", "createdAt", "metadata", "owner", "jobFiles"}

UpdateValues == {ScalarValue, ArrayValue, ObjectValue("camel")}

Updates == UNION {[ks -> UpdateValues] : ks \in SUBSET UpdateKeys}

Restrict(f, ks) == [k \in ks |-> f[k]]

\* first reduce: drop the relation keys
cleanedUpdates(updates) ==
    Restrict(updates, {k \in DOMAIN updates : k \notin relationKeys})

\* a second reduce that lets arrays through
finalUpdates_KeepsArrays(cleaned) == cleaned

\* second reduce: drop the entries whose value is an array
finalUpdates(cleaned) ==
    Restrict(cleaned, {k \in DOMAIN cleaned : cleaned[k].kind # "array"})

\* decamelizeKeys converts the keys of nested objects as well
decamelizeValue(v) == IF v.kind = "object" THEN ObjectValue("snake") ELSE v

\* decamelizeKeys(object): every key to snake_case, values converted in depth
decamelizeKeys(obj) ==
    [k \in {decamelize(j) : j \in DOMAIN obj} |->
        decamelizeValue(obj[CHOOSE j \in DOMAIN obj : decamelize(j) = k])]

\* .update(decamelizeKeys(finalUpdates)).eq('id', id)
updateRequest(id, updates) ==
    [payload |-> decamelizeKeys(finalUpdates(cleanedUpdates(updates))), id |-> id]

NoRequest == [payload |-> <<>>, id |-> ""]

UpdIdle ==
    /\ uId = "7"
    /\ uUpdates = <<>>
    /\ uPc = "start"
    /\ uRequest = NoRequest

UpdInit ==
    /\ uId \in {"7", "8"}
    /\ uUpdates \in Updates
    /\ uPc = "start"
    /\ uRequest = NoRequest

\* updateItem({ id, ...updates }): the mutationFn builds and sends the request
SendUpdate ==
    /\ uPc = "start"
    /\ uPc' = "done"
    /\ uRequest' = updateRequest(uId, uUpdates)
    /\ UNCHANGED <<uId, uUpdates, updOthers>>

(***************************************************************************)
(* UserProvider.  A state update, the render it causes and the effects of  *)
(* that render are one step.  Every non-null user set is a new object, so  *)
(* the profile effect runs again even for the same user; null to null is   *)
(* no change.                                                              *)
(***************************************************************************)
AuthUsers == {"u1", "u2"}

MaxFetches == 3

MaxAuthEvents == 3

NoFetch == [pc |-> "idle", user |-> "none", cancelled |-> FALSE]

\* return () => { cancelled = true }: the cleanup of the run in flight
cancelFetches(fetches) ==
    [i \in DOMAIN fetches |->
        IF fetches[i].pc = "inflight" THEN [fetches[i] EXCEPT !.cancelled = TRUE]
        ELSE fetches[i]]

FreeFetch(fetches) == CHOOSE i \in DOMAIN fetches :
                        fetches[i].pc = "idle" /\ \A j \in DOMAIN fetches : fetches[j].pc = "idle" => i <= j

UserState(user, tofil, loading, fetches) ==
    [user |-> user, tofil |-> tofil, loading |-> loading, fetches |-> fetches]

\* setSupabaseUser(user) and the profile effect of the next render: the
\* cleanup of the previous run, then setTofilUser(null) for no user, or
\* setIsLoading(true) and a new fetch
profileEffect(st, user) ==
    IF user = "none"
    THEN IF st.user = "none" THEN [st EXCEPT !.tofil = "none"]
         ELSE UserState("none", "none", st.loading, cancelFetches(st.fetches))
    ELSE LET fs == cancelFetches(st.fetches)
         IN  UserState(user, st.tofil, TRUE,
                       [fs EXCEPT ![FreeFetch(fs)] =
                            [pc |-> "inflight", user |-> user, cancelled |-> FALSE]])

CanFetch == \E i \in DOMAIN pFetches : pFetches[i].pc = "idle"

UserNow == UserState(pSupabaseUser, pTofilUser, pIsLoading, pFetches)

SetUserState(st) ==
    /\ pSupabaseUser' = st.user
    /\ pTofilUser' = st.tofil
    /\ pIsLoading' = st.loading
    /\ pFetches' = st.fetches

UserIdle ==
    /\ pSupabaseUser = "none"
    /\ pTofilUser = "none"
    /\ pIsLoading = FALSE
    /\ pSession = "done"
    /\ pFetches = [i \in 1..MaxFetches |-> NoFetch]
    /\ pEvents = 0

\* after the mounting render: the first effect has called setIsLoading(true)
\* and awaits getUser(); the profile effect found no user
UserInit ==
    /\ pSupabaseUser = "none"
    /\ pTofilUser = "none"
    /\ pIsLoading = TRUE
    /\ pSession = "pending"
    /\ pFetches = [i \in 1..MaxFetches |-> NoFetch]
    /\ pEvents = 0

\* getUser() resolves: with a user, without one (or with an error), or it
\* throws
SessionCheckSettles ==
    \E r \in AuthUsers \cup {"none", "throw"} :
        /\ pSession = "pending"
        /\ pSession' = "done"
        /\ r \in AuthUsers => CanFetch
        /\ CASE r = "throw" -> SetUserState([UserNow EXCEPT !.loading = FALSE])
             [] r = "none" ->
                  SetUserState([profileEffect([UserNow EXCEPT !.tofil = "none"], "none")
                                    EXCEPT !.loading = FALSE])
             [] OTHER -> SetUserState(profileEffect([UserNow EXCEPT !.loading = FALSE], r))
        /\ UNCHANGED <<pEvents, userOthers>>

\* onAuthStateChange((event, session) => ...); signOut() makes the same
\* update as an event without a session
AuthStateChange ==
    \E u \in AuthUsers \cup {"none"} :
        /\ pEvents < MaxAuthEvents
        /\ pEvents' = pEvents + 1
        /\ u \in AuthUsers => CanFetch
        /\ SetUserState(profileEffect(UserNow, u))
        /\ UNCHANGED <<pSession, userOthers>>

\* the profile fetch of one run settles: a profile, no row, or an exception;
\* a cancelled run sets nothing
ProfileFetchSettles ==
    \E i \in DOMAIN pFetches, found \in BOOLEAN :
        /\ pFetches[i].pc = "inflight"
        /\ pFetches' = [pFetches EXCEPT ![i] = [@ EXCEPT !.pc = "done"]]
        /\ IF pFetches[i].cancelled
           THEN UNCHANGED <<pTofilUser, pIsLoading>>
           ELSE /\ pTofilUser' = IF found THEN pFetches[i].user ELSE "none"
                /\ pIsLoading' = FALSE
        /\ UNCHANGED <<pSupabaseUser, pSession, pEvents, userOthers>>

(***************************************************************************)
(* useVersionCheck.  checkForUpdates runs without a break from its guards  *)
(* to the fetch call, so its start is one step; the end of the fetch is    *)
(* another.  Of the clock only the time since the last check is kept, and  *)
(* only up to the minimum interval: lastCheckRef starts at 0, long ago.    *)
(***************************************************************************)
\* CHECK_INTERVAL = 60000 ms
CheckInterval == 60

\* MIN_CHECK_INTERVAL = 5000 ms
MinCheckInterval == 5

\* setTimeout(..., 1000) after a route change
RouteDelay == 1

Timer(armed, remaining) == [armed |-> armed, remaining |-> remaining]

BuildIds == {"b1", "b2"}

CheckState(checking, since, running, sinceStart, gap) ==
    [checking |-> checking, since |-> since, running |-> running,
     sinceStart |-> sinceStart, gap |-> gap]

\* a check without the minimum interval between checks
checkForUpdates_NoThrottle(st, skip) ==
    IF skip \/ st.checking THEN st
    ELSE CheckState(TRUE, 0, st.running + 1, 0, st.sinceStart)

\* checkForUpdates up to the await of fetch: the three guards, then the
\* marker is set and lastCheckRef.current = now
checkForUpdates(st, skip) ==
    IF skip THEN st
    ELSE IF st.checking THEN st
    ELSE IF st.since < MinCheckInterval THEN st
    ELSE CheckState(TRUE, 0, st.running + 1, 0, st.sinceStart)

CheckNow == CheckState(vChecking, vSinceCheck, vRunning, vSinceStart, vGap)

SetCheck(st) ==
    /\ vChecking' = st.checking
    /\ vSinceCheck' = st.since
    /\ vRunning' = st.running
    /\ vSinceStart' = st.sinceStart
    /\ vGap' = st.gap

VerIdle ==
    /\ vSkip = TRUE
    /\ vChecking = FALSE
    /\ vSinceCheck = MinCheckInterval
    /\ vRunning = 0
    /\ vInterval = Timer(FALSE, 0)
    /\ vRoute = Timer(FALSE, 0)
    /\ vStored = "none"
    /\ vUpdate = FALSE
    /\ vSinceStart = MinCheckInterval
    /\ vGap = -1
    /\ vLastOutcome = "none"

\* after the mounting render: the first effect has made the initial check
\* and armed the interval, the second has armed the route-change timer;
\* none of it when checks are skipped
VerInit ==
    /\ vSkip \in BOOLEAN
    /\ vStored \in {"none"} \cup BuildIds
    /\ vUpdate = FALSE
    /\ vLastOutcome = "none"
    /\ LET st == checkForUpdates(
                    CheckState(FALSE, MinCheckInterval, 0, MinCheckInterval, -1), vSkip)
       IN  /\ vChecking = st.checking
           /\ vSinceCheck = st.since
           /\ vRunning = st.running
           /\ vSinceStart = st.sinceStart
           /\ vGap = -1
    /\ vInterval = IF vSkip THEN Timer(FALSE, 0) ELSE Timer(TRUE, CheckInterval)
    /\ vRoute = IF vSkip THEN Timer(FALSE, 0) ELSE Timer(TRUE, RouteDelay)

Due(t) == t.armed /\ t.remaining = 0

Later(n) == IF n < MinCheckInterval THEN n + 1 ELSE n

\* one second passes; a timer that is due fires first
VersionTick ==
    /\ ~vSkip
    /\ ~Due(vInterval) /\ ~Due(vRoute)
    /\ vSinceCheck' = Later(vSinceCheck)
    /\ vSinceStart' = Later(vSinceStart)
    /\ vInterval' = IF vInterval.armed THEN Timer(TRUE, vInterval.remaining - 1) ELSE vInterval
    /\ vRoute' = IF vRoute.armed THEN Timer(TRUE, vRoute.remaining - 1) ELSE vRoute
    /\ UNCHANGED <<vSkip, vChecking, vRunning, vStored, vUpdate, vGap, vLastOutcome, verOthers>>

\* setInterval(checkForUpdates, CHECK_INTERVAL) fires
IntervalFires ==
    /\ Due(vInterval)
    /\ vInterval' = Timer(TRUE, CheckInterval)
    /\ SetCheck(checkForUpdates(CheckNow, vSkip))
    /\ UNCHANGED <<vSkip, vRoute, vStored, vUpdate, vLastOutcome, verOthers>>

\* the timeout of the route-change effect fires
RouteTimerFires ==
    /\ Due(vRoute)
    /\ vRoute' = Timer(FALSE, 0)
    /\ SetCheck(checkForUpdates(CheckNow, vSkip))
    /\ UNCHANGED <<vSkip, vInterval, vStored, vUpdate, vLastOutcome, verOthers>>

\* pathname changes: the cleanup clears the pending timeout, the effect arms
\* a new one
RouteChange ==
    /\ ~vSkip
    /\ vRoute # Timer(TRUE, RouteDelay)
    /\ vRoute' = Timer(TRUE, RouteDelay)
    /\ UNCHANGED <<vSkip, vChecking, vSinceCheck, vRunning, vInterval, vStored, vUpdate,
                   vSinceStart, vGap, vLastOutcome, verOthers>>

\* a consumer calls the returned checkForUpdates()
ManualCheck ==
    /\ SetCheck(checkForUpdates(CheckNow, vSkip))
    /\ UNCHANGED <<vSkip, vInterval, vRoute, vStored, vUpdate, vLastOutcome, verOthers>>

\* the fetch of a running check ends: a response with a build id, a
\* response that is not ok, or an exception; finally clears the marker
CheckSettles ==
    \E outcome \in BuildIds \cup {"notOk", "throw"} :
        /\ vRunning > 0
        /\ vRunning' = vRunning - 1
        /\ vChecking' = FALSE
        /\ vLastOutcome' = IF outcome \in BuildIds THEN "ok" ELSE outcome
        /\ vStored' = IF outcome \in BuildIds /\ vStored = "none" THEN outcome ELSE vStored
        /\ vUpdate' = IF outcome \in BuildIds /\ vStored # "none" /\ vStored # outcome
                      THEN TRUE ELSE vUpdate
        /\ UNCHANGED <<vSkip, vSinceCheck, vInterval, vRoute, vSinceStart, vGap, verOthers>>

(***************************************************************************)
(* useLocalStorage.  Values are numbers; an item of the storage is absent, *)
(* the JSON text of a value, or a text that JSON.parse rejects.            *)
(***************************************************************************)
MaxValues == 3

LsValues == 1..MaxValues

NoItem == [kind |-> "none", of |-> 0]

\* serialize = JSON.stringify
serialize(v) == [kind |-> "json", of |-> v]

GarbageItem == [kind |-> "garbage", of |-> 0]

Items == {NoItem, GarbageItem} \cup {serialize(v) : v \in LsValues}

\* the useState initializer: item ? deserialize(item) : initialValue, and
\* initialValue when deserialize throws
readInitial(item, initialValue) ==
    IF item.kind = "json" THEN item.of ELSE initialValue

\* the saving effect after a render: it runs on mount and whenever
\* storedValue has changed, and writes serialize(storedValue)
afterRender(item, before, after, first) ==
    IF first \/ before # after THEN serialize(after) ELSE item

LsIdle ==
    /\ sInitial = 1
    /\ sMounted = FALSE
    /\ sValue = 1
    /\ sStorage = NoItem
    /\ sLast = "none"

LsInit ==
    /\ sInitial \in LsValues
    /\ sMounted = FALSE
    /\ sValue = sInitial
    /\ sStorage \in Items
    /\ sLast = "none"

\* first render: useState reads the storage, then the effect saves
LsMount ==
    /\ ~sMounted
    /\ sMounted' = TRUE
    /\ sValue' = readInitial(sStorage, sInitial)
    /\ sStorage' = afterRender(sStorage, sValue, readInitial(sStorage, sInitial), TRUE)
    /\ sLast' = "mount"
    /\ UNCHANGED <<sInitial, lsOthers>>

\* setValue(v): setStoredValue(v), render, effect
SetValue ==
    \E v \in LsValues :
        /\ sMounted
        /\ sValue' = v
        /\ sStorage' = afterRender(sStorage, sValue, v, FALSE)
        /\ sLast' = "set"
        /\ UNCHANGED <<sInitial, sMounted, lsOthers>>

\* removeValue(): removeItem(key), setStoredValue(initialValue), render,
\* effect
RemoveValue ==
    /\ sMounted
    /\ sValue' = sInitial
    /\ sStorage' = afterRender(NoItem, sValue, sInitial, FALSE)
    /\ sLast' = "remove"
    /\ UNCHANGED <<sInitial, sMounted, lsOthers>>

\* other code or another tab writes or removes the item
ExternalWrite ==
    \E item \in Items :
        /\ item # sStorage
        /\ sStorage' = item
        /\ sLast' = "external"
        /\ UNCHANGED <<sInitial, sMounted, sValue, lsOthers>>

MoreIdle == SmartIdle /\ RetryIdle /\ CmpIdle /\ FmtIdle /\ UpdIdle /\ UserIdle /\ VerIdle /\ LsIdle /\ LqIdle

(***************************************************************************)
(* Specifications                                                          *)
(***************************************************************************)
KeyNext == CallAll \/ CallLists \/ CallList \/ CallDetail

InitKeys == KeyInit /\ ErrIdle /\ WrapIdle /\ HookIdle /\ CrudIdle /\ HandlerIdle /\ MoreIdle

SpecKeys == InitKeys /\ [][KeyNext]_vars

ErrNext == TransformOnce \/ TransformAgain

InitErr == KeyIdle /\ ErrInit /\ WrapIdle /\ HookIdle /\ CrudIdle /\ HandlerIdle /\ MoreIdle

SpecErr == InitErr /\ [][ErrNext]_vars

WrapNext == StartQuery \/ StartMutate \/ SettleCall

InitWrap == KeyIdle /\ ErrIdle /\ WrapInit /\ HookIdle /\ CrudIdle /\ HandlerIdle /\ MoreIdle

SpecWrap == InitWrap /\ [][WrapNext]_vars

HookNext == RunHook

InitHooks == KeyIdle /\ ErrIdle /\ WrapIdle /\ HookInit /\ CrudIdle /\ HandlerIdle /\ MoreIdle

SpecHooks == InitHooks /\ [][HookNext]_vars

CrudNext ==
    MountList \/ MountSingle \/ Unmount \/ SettleFetch \/ FocusWindow \/ StartMutation
        \/ SettleMutation

InitCrud == KeyIdle /\ ErrIdle /\ WrapIdle /\ HookIdle /\ CrudInit /\ HandlerIdle /\ MoreIdle

SpecCrud == InitCrud /\ [][CrudNext]_vars

HandlerNext == Handle \/ ClearError \/ Execute \/ ExecuteQuietly

InitHandler == KeyIdle /\ ErrIdle /\ WrapIdle /\ HookIdle /\ CrudIdle /\ HandlerInit /\ MoreIdle

SpecHandler == InitHandler /\ [][HandlerNext]_vars

FirstIdle == KeyIdle /\ ErrIdle /\ WrapIdle /\ HookIdle /\ CrudIdle /\ HandlerIdle

SmartNext == SmartMount \/ SmartRender \/ SmartTick \/ SmartUnmount

InitSmart == FirstIdle /\ SmartInit /\ RetryIdle /\ CmpIdle /\ FmtIdle /\ UpdIdle /\ UserIdle /\ VerIdle /\ LsIdle /\ LqIdle

SpecSmart == InitSmart /\ [][SmartNext]_vars

RetryNext == RetryStart \/ AttemptFails \/ AttemptSucceeds \/ RetryWake

InitRetry == FirstIdle /\ SmartIdle /\ RetryInit /\ CmpIdle /\ FmtIdle /\ UpdIdle /\ UserIdle /\ VerIdle /\ LsIdle /\ LqIdle

SpecRetry == InitRetry /\ [][RetryNext]_vars

CmpNext == BuildListKeys

InitCmp == FirstIdle /\ SmartIdle /\ RetryIdle /\ CmpInit /\ FmtIdle /\ UpdIdle /\ UserIdle /\ VerIdle /\ LsIdle /\ LqIdle

SpecCmp == InitCmp /\ [][CmpNext]_vars

FmtNext == FormatDate

InitFmt == FirstIdle /\ SmartIdle /\ RetryIdle /\ CmpIdle /\ FmtInit /\ UpdIdle /\ UserIdle /\ VerIdle /\ LsIdle /\ LqIdle

SpecFmt == InitFmt /\ [][FmtNext]_vars

UpdNext == SendUpdate

InitUpd == FirstIdle /\ SmartIdle /\ RetryIdle /\ CmpIdle /\ FmtIdle /\ UpdInit /\ UserIdle /\ VerIdle /\ LsIdle /\ LqIdle

SpecUpd == InitUpd /\ [][UpdNext]_vars

UserNext == SessionCheckSettles \/ AuthStateChange \/ ProfileFetchSettles

InitUser == FirstIdle /\ SmartIdle /\ RetryIdle /\ CmpIdle /\ FmtIdle /\ UpdIdle /\ UserInit /\ VerIdle /\ LsIdle /\ LqIdle

SpecUser == InitUser /\ [][UserNext]_vars

VerNext ==
    VersionTick \/ IntervalFires \/ RouteTimerFires \/ RouteChange \/ ManualCheck
        \/ CheckSettles

InitVer == FirstIdle /\ SmartIdle /\ RetryIdle /\ CmpIdle /\ FmtIdle /\ UpdIdle /\ UserIdle /\ VerInit /\ LsIdle /\ LqIdle

SpecVer == InitVer /\ [][VerNext]_vars

LsNext == LsMount \/ SetValue \/ RemoveValue \/ ExternalWrite

InitLs == FirstIdle /\ SmartIdle /\ RetryIdle /\ CmpIdle /\ FmtIdle /\ UpdIdle /\ UserIdle /\ VerIdle /\ LsInit /\ LqIdle

SpecLs == InitLs /\ [][LsNext]_vars

LqNext == FetchLists

InitLq == FirstIdle /\ SmartIdle /\ RetryIdle /\ CmpIdle /\ FmtIdle /\ UpdIdle /\ UserIdle /\ VerIdle /\ LsIdle /\ LqInit

SpecLq == InitLq /\ [][LqNext]_vars

(***************************************************************************)
(* Claims about the query-key factory                                      *)
(***************************************************************************)
\* C1: for every entity, id and filter, all() is a strict prefix of detail(id)
\* and of list(f), so a prefix invalidation of all() matches both keys.
C1_AllPrefixesDerived ==
    /\ kOp = "detail" => IsStrictPrefix(all(kEntity), kKey)
    /\ kOp = "list" => IsStrictPrefix(all(kEntity), kKey)

C1_Witness ==
    /\ kOp = "list"
    /\ kEntity = "users"
    /\ kFilter = ObjFilter({<<"type", "OWNER">>})
    /\ kKey = <<StrTok("users"), StrTok("list"), FltTok(kFilter)>>

(***************************************************************************)
(* Claims about the error normalisation layer                              *)
(***************************************************************************)
\* C4: transformError is total: for any input it returns an AppError and
\* never throws.
C4_NeverThrows ==
    ePc # "start" => (~eRes1.threw /\ isAppError(eRes1.val))

\* the kind the claim assigns by shape, in the claim's order
ClaimedKind(error) ==
    IF error.marker THEN "AUTH"
    ELSE IF error.details \/ error.hint \/ error.code
    THEN IF Includes(error.msg, <<"row-level security">>) \/ Includes(error.msg, <<"permission denied">>)
         THEN "PERMISSION"
         ELSE IF Includes(error.msg, <<"not-null constraint">>) \/ Includes(error.msg, <<"check constraint">>)
              THEN "VALIDATION"
              ELSE "DATABASE"
    ELSE IF Includes(error.msg, <<"Failed to fetch">>) \/ Includes(error.msg, <<"NetworkError">>)
            \/ Includes(error.msg, <<"ERR_NETWORK">>)
    THEN "NETWORK"
    ELSE IF Includes(error.msg, <<"storage/">>) \/ Includes(error.msg, <<"File size">>)
            \/ Includes(error.msg, <<"File type">>)
    THEN "FILE_UPLOAD"
    ELSE "UNKNOWN"

\* C5: the kind is assigned by shape in the order auth marker, database
\* fields (refined to Permission, then Validation, by the message), network
\* message, file message, Unknown.  Read for the inputs that carry a string
\* message and, when they carry the auth marker, a status.
C5_KindByShape ==
    (/\ ePc = "once"
     /\ isObjectLike(eIn) /\ ~isAppError(eIn)
     /\ eIn.hasMessage /\ eIn.msgType = "string"
     /\ eIn.marker => eIn.status)
    => (~eRes1.threw /\ eRes1.val.kind = ClaimedKind(eIn))

\* C6: transformError is idempotent: applied to the AppError it returned it
\* returns that same value, whatever the second context.
C6_Idempotent ==
    ePc = "twice" => (~eRes2.threw /\ eRes2.val = eRes1.val)

C6_Witness ==
    /\ ePc = "twice"
    /\ eIn = ErrorVal(<<"Failed to fetch">>)
    /\ eRes1.val.kind = "NETWORK"
    /\ eRes2.val = eRes1.val


(***************************************************************************)
(* Claims about the data client wrapper                                    *)
(***************************************************************************)
Settled(i) == wCalls[i].pc \in {"resolved", "rejected"}

\* C9: query(fn) and mutate(fn) set the loading flag to true before fn is
\* invoked and to false when it has finished, on every path: success,
\* backend-reported error, exception thrown by fn.
C9_LoadingBracketsCall ==
    [][ /\ (\E i \in 1..MaxCalls : wCalls[i].pc = "idle" /\ wCalls'[i].pc = "awaiting")
            => wLoading'
        /\ (\E i \in 1..MaxCalls : wCalls[i].pc = "awaiting" /\ Settled(i)')
            => ~wLoading' ]_vars

C9_Witness ==
    \E i \in 1..MaxCalls :
        /\ wCalls[i].pc = "rejected"
        /\ wCalls[i].outcome.t = "throw"
        /\ ~wLoading

\* C10: the wrapper never lets an exception escape: when fn throws, the
\* call resolves to {data: null, error} with an error in it.
C10_NoEscape ==
    \A i \in 1..MaxCalls :
        (Settled(i) /\ wCalls[i].outcome.t = "throw")
            => /\ wCalls[i].pc = "resolved"
               /\ ~wCalls[i].result.data.present
               /\ wCalls[i].result.error # NullVal

(***************************************************************************)
(* Claims about the data hooks                                             *)
(***************************************************************************)
\* C7: every error a data hook throws to the query cache or to its caller
\* is a normalized AppError.
C7_OnlyAppErrors ==
    (dPc = "done" /\ dResult.t = "error") => isAppError(dResult.error)

(***************************************************************************)
(* Claims about the CRUD hooks on the query cache                          *)
(***************************************************************************)
MutationSucceeds == qMutation.pc = "pending" /\ qMutation'.pc = "success"

MutationFails == qMutation.pc = "pending" /\ qMutation'.pc = "error"

\* the cached data of k is older than the backend
Outdated(k) ==
    qCache[k].exists /\ qCache[k].hasData /\ qCache[k].dataVersion < qBackend

\* C2: when a create, update or delete succeeds, every cached list and
\* detail query of the entity is marked stale (and refetched when a mounted
\* hook observes it); outdated data never sits in the cache unmarked, and a
\* mounted hook on outdated data is being refetched or has seen its refetch
\* fail; a failed mutation leaves the cache as it is.
C2_MutationInvalidates ==
    /\ [][ /\ MutationSucceeds =>
                \A k \in QueryKeys :
                    qCache[k].exists =>
                        /\ qCache'[k].isInvalidated
                        /\ IsActive(qHooks, k) => qCache'[k].fetching
           /\ MutationFails => qCache' = qCache ]_vars
    /\ [](\A k \in QueryKeys :
            Outdated(k) =>
                /\ qCache[k].isInvalidated \/ qCache[k].fetching
                /\ IsActive(qHooks, k) => (qCache[k].fetching \/ qCache[k].error # NullVal))

C2_Witness ==
    /\ qMutation.pc = "success"
    /\ Outdated(fullQueryKey(ObjFilter({<<"status", "AVAILABLE">>})))
    /\ qCache[fullQueryKey(ObjFilter({<<"status", "AVAILABLE">>}))].isInvalidated
    /\ Outdated(buildQueryKey("7"))
    /\ qCache[buildQueryKey("7")].isInvalidated

\* C3: a list hook called with filters caches its result under the key
\* factory's list(filters): ["jobs","list",{status:"AVAILABLE"}] for the
\* filter {status: "AVAILABLE"}.
C3_ListKeyIsFactoryList ==
    \A c \in Components :
        (qHooks[c].mounted /\ qHooks[c].kind = "list" /\ qHooks[c].filters.truthy)
            => qHooks[c].key = list("jobs", qHooks[c].filters, "")

\* C12: a fetch for the single item is in flight only if the id handed to
\* the hook is a non-empty string, whatever mounts, invalidations and window
\* focus events happen.
C12_NoFetchWithoutId ==
    \A id \in ItemIds : qCache[buildQueryKey(id)].fetching => id # ""

C12_Witness ==
    /\ qHooks["itemView"].mounted
    /\ qHooks["itemView"].id = ""
    /\ qMutation.pc = "success"
    /\ qCache[buildQueryKey("")].isInvalidated
    /\ ~qCache[buildQueryKey("")].fetching

\* the fetch of k ends in this step and leaves an error
FetchFails(k) ==
    qCache[k].fetching /\ ~qCache'[k].fetching /\ qCache'[k].error # NullVal

\* C11: when a refetch of a list query fails after an earlier successful
\* fetch, the error is populated and the data is still the last
\* successfully fetched list; no step ever clears existing data.
C11_FailedRefetchKeepsData ==
    [][ \A k \in ListKeys :
            qCache[k].hasData =>
                /\ qCache'[k].hasData
                /\ FetchFails(k) =>
                        /\ qCache'[k].dataVersion = qCache[k].dataVersion
                        /\ isAppError(qCache'[k].error) ]_vars

C11_Witness ==
    \E k \in ListKeys :
        /\ qCache[k].hasData
        /\ qCache[k].dataVersion < qBackend
        /\ ~qCache[k].fetching
        /\ qCache[k].error # NullVal

(***************************************************************************)
(* Claims about useErrorHandler                                            *)
(***************************************************************************)
\* C8 as stated: every handled error, whatever its kind, triggers exactly
\* one toast unless the consumer disabled toasts.
C8_OneToastEveryKind ==
    (hLast.handled /\ hOptions.showToast) => Len(hLast.toasts) = 1

\* C8 as amended: a handled error of a kind other than Auth triggers exactly
\* one toast, carrying the message of the normalized error, unless the
\* consumer disabled toasts; an Auth error and a handler with toasts
\* disabled trigger none.
C8_OneToastUnlessAuth ==
    hLast.handled =>
        IF hLast.result.kind # "AUTH" /\ hOptions.showToast
        THEN /\ Len(hLast.toasts) = 1
             /\ hLast.toasts[1].description = hLast.result.msg
        ELSE hLast.toasts = <<>>

C8_Witness ==
    /\ hLast.op = "handle"
    /\ hLast.handled
    /\ hLast.result.kind = "PERMISSION"
    /\ hOptions.showToast
    /\ hLast.toasts = <<Toast("Access Denied", <<"Access denied">>)>>
    /\ hToasts = hLast.toasts

(***************************************************************************)
(* Claims about useSmartLoading                                            *)
(***************************************************************************)
ShowCondition == shouldShow(smIn, smLoaded, smOpts)

PendingTimers == {id \in TimerIds : smTimers[id].pending}

\* C13: the indicator is never shown for a fast response: while the
\* component is mounted, shouldShowLoading is true only if the show
\* condition holds and has held without a break for at least loadingDelay.
C13_NoFlicker ==
    (smMounted = "mounted" /\ smShow)
        => (ShowCondition /\ smAge.cond >= smOpts.loadingDelay)

C13_Witness ==
    /\ smMounted = "mounted"
    /\ smRef # 0
    /\ PendingTimers = {}
    /\ smLoaded
    /\ ~smIn.isLoading
    /\ ~smShow

\* C14: an initial load that has stayed in progress for loadingDelay or
\* longer shows the indicator.
C14_SlowInitialLoadShows ==
    (/\ smMounted = "mounted"
     /\ isInitialLoad(smIn, smLoaded, smOpts)
     /\ smAge.init >= smOpts.loadingDelay)
        => smShow

C14_Witness ==
    /\ smMounted = "mounted"
    /\ isInitialLoad(smIn, smLoaded, smOpts)
    /\ ~smIn.hasData
    /\ smAge.init = smOpts.loadingDelay
    /\ smShow

\* C15: a background refetch never shows the indicator unless
\* showBackgroundRefetch is set; when it is set the indicator shows once the
\* refetch has lasted loadingDelay.
C15_BackgroundRefetchQuiet ==
    (smMounted = "mounted" /\ isBackgroundRefetch(smIn, smLoaded))
        => IF smOpts.showBackgroundRefetch
           THEN smAge.bg >= smOpts.loadingDelay => smShow
           ELSE ~smShow

C15_Witness ==
    /\ smMounted = "mounted"
    /\ isBackgroundRefetch(smIn, smLoaded)
    /\ ~smOpts.showBackgroundRefetch
    /\ smAge.bg >= smOpts.loadingDelay
    /\ ~smShow

\* C16: hasLoadedOnce turns true the first time hasData is true and is
\* never reset, whatever arguments follow.
C16_LoadedOnceLatches ==
    /\ []((smMounted = "mounted" /\ smIn.hasData) => smLoaded)
    /\ [][ /\ smLoaded => smLoaded'
           /\ (~smLoaded /\ smLoaded') => smIn'.hasData ]_vars

C16_Witness ==
    /\ smMounted = "mounted"
    /\ smLoaded
    /\ ~smIn.hasData
    /\ smIn.isLoading

\* C17: a pending timer belongs to the current show condition of a mounted
\* component: none is pending once the condition is false or the component
\* is unmounted, and at most one is pending at any time.
C17_TimerCancelled ==
    /\ Cardinality(PendingTimers) <= 1
    /\ \A id \in PendingTimers :
            smMounted = "mounted" /\ ShowCondition /\ id = smRef

C17_Witness ==
    /\ smMounted = "unmounted"
    /\ ShowCondition
    /\ smRef # 0
    /\ PendingTimers = {}
    /\ ~smShow

(***************************************************************************)
(* Retry policy                                                            *)
(***************************************************************************)
\* the backend answered the request with a client error
ClientFailure == rFailure.status >= 400 /\ rFailure.status < 500

RetryOver == rPc \in {"failed", "succeeded"}

\* C18: a failing query is retried with exponential backoff on transient or
\* server errors and not at all on a client (4xx) error; a failing mutation
\* is retried at most once; every query and mutation stops after a bounded
\* number of attempts.
C18_RetryPolicy ==
    /\ rHook.op = "query" /\ ClientFailure => rFailureCount = 0 /\ rAttempts <= 1
    /\ rHook.op = "query" /\ ~ClientFailure /\ rPc = "failed" => rFailureCount = QueryRetryLimit
    /\ rHook.op = "query" =>
          \A i \in DOMAIN rDelays : rDelays[i] = Min(RetryBaseDelay * 2 ^ (i - 1), RetryMaxDelay)
    /\ rHook.op = "mutate" => rFailureCount <= MutationRetry /\ rAttempts <= MutationRetry + 1
    /\ rAttempts <= QueryRetryLimit + 1

(***************************************************************************)
(* List keys and filter objects                                            *)
(***************************************************************************)
\* two object literals have the same properties with the same values
StructurallyEqual(a, b) ==
    /\ Len(a.props) = Len(b.props)
    /\ \A i \in DOMAIN a.props : \E j \in DOMAIN b.props : a.props[i] = b.props[j]

\* C19: for each entity, list(f1) and list(f2) are equal keys if and only if
\* the filter objects f1 and f2 are structurally equal, whatever their
\* references; list() without filters is lists().
C19_ListKeyByContent ==
    cPc = "done" =>
        /\ cF1.ref # 0 /\ cF2.ref # 0 => (cKey1 = cKey2 <=> StructurallyEqual(cF1, cF2))
        /\ cF1.ref = 0 => cKey1 = lists(cEntity)
        /\ cF2.ref = 0 => cKey2 = lists(cEntity)

\* two distinct objects, their properties written in different orders
C19_Witness ==
    /\ cPc = "done"
    /\ cF1.ref # 0 /\ cF2.ref # 0 /\ cF1.ref # cF2.ref
    /\ Len(cF1.props) = 2
    /\ cF1.props # cF2.props
    /\ StructurallyEqual(cF1, cF2)
    /\ cKey1 = cKey2
    /\ cKey1 # lists(cEntity)

(***************************************************************************)
(* formatRelativeDate                                                      *)
(***************************************************************************)
\* the whole-day difference between now and the given date
WholeDays == (fNow - fThen) \div HoursPerDay

Counted(n, unit) == [text |-> "ago", count |-> n, unit |-> unit, plural |-> ~(n = 1)]

\* the table of the claim, read as it is written: every d outside 0..364
\* falls under "years otherwise"
TextByTable(d) ==
    CASE d = 0 -> FixedText("Today")
      [] d = 1 -> FixedText("Yesterday")
      [] 2 <= d /\ d < 7 -> Counted(d, "day")
      [] 7 <= d /\ d < 30 -> Counted(d \div 7, "week")
      [] 30 <= d /\ d < 365 -> Counted(d \div 30, "month")
      [] OTHER -> Counted(d \div 365, "year")

\* C20 as stated: formatRelativeDate maps the whole-day difference d to
\* "Today" (0), "Yesterday" (1), "d days ago" (2 <= d < 7), floor(d/7) weeks
\* (7 <= d < 30), floor(d/30) months (30 <= d < 365) and floor(d/365) years
\* otherwise, the unit singular exactly when the count is 1.
C20_TableEveryDate == fPc = "done" => fOut = TextByTable(WholeDays)

\* C20, amended: the table holds for every date that is not in the future
\* (d >= 0); a date in the future (d < 0) falls under the days case and
\* gives "d days ago" with the negative d, in the plural.
C20_TableUnlessFuture ==
    fPc = "done" =>
        /\ WholeDays >= 0 => fOut = TextByTable(WholeDays)
        /\ WholeDays < 0 => fOut = Counted(WholeDays, "day") /\ fOut.plural

\* 7 days before now gives "1 week ago", in the singular
C20_Witness ==
    /\ fPc = "done"
    /\ WholeDays = 7
    /\ fOut = [text |-> "ago", count |-> 1, unit |-> "week", plural |-> FALSE]

\* C21: shouldShowLoading becomes false at once, without a delay, when the
\* show condition turns false: the render in which the condition stops
\* holding leaves the indicator off, in particular the render in which
\* loading finishes after the indicator was shown.
C21_HidesImmediately ==
    [][ (smMounted = "mounted" /\ smMounted' = "mounted" /\ ShowCondition /\ ~ShowCondition')
            => ~smShow' ]_vars

\* the indicator was on and the render that ended the loading turned it off
C21_Witness ==
    /\ smMounted = "mounted"
    /\ smHid
    /\ ~smShow
    /\ ~smIn.isLoading
    /\ ~ShowCondition

(***************************************************************************)
(* List fetch                                                              *)
(***************************************************************************)
\* C22: whenever an offset is given, offset 0 included, the list fetch asks
\* for the rows offset .. offset+limit-1, with limit 10 when none is given.
C22_RangeFromOffset ==
    (lPc = "done" /\ lOptions1.offset.given) =>
        lQuery1.range =
            RowRange(lOptions1.offset.n,
                     lOptions1.offset.n
                        + (IF lOptions1.limit.given THEN lOptions1.limit.n ELSE 10) - 1)

\* C25: the cache key of a list query determines the backend query: two
\* list-hook instances of one factory with the same cache key issue the same
\* backend query (same equality filters, same ordering, same range), so none
\* receives data fetched for the other's different list options.
C25_KeyDeterminesQuery ==
    (lPc = "done" /\ lKey1 = lKey2) => lQuery1 = lQuery2

(***************************************************************************)
(* Update payload                                                          *)
(***************************************************************************)
\* the entries of the caller's update that are to be sent
KeptKeys == {k \in DOMAIN uUpdates : k \notin relationKeys /\ uUpdates[k].kind # "array"}

\* C23 as stated: the payload holds exactly the entries of the update whose
\* key is not id, not a relation name, and whose value is not an array (each
\* under its wire-format key), every one with its value unchanged, and the
\* row is selected by the given id.
C23_PayloadValuesUnchanged ==
    uPc = "done" =>
        /\ uRequest.id = uId
        /\ DOMAIN uRequest.payload = {decamelize(k) : k \in KeptKeys}
        /\ \A k \in KeptKeys : uRequest.payload[decamelize(k)] = uUpdates[k]

\* C23, amended: the same entries are sent and the row is selected by the
\* given id; a scalar value is sent unchanged, an object value is sent with
\* its own keys translated to the wire format as well.
C23_PayloadStripped ==
    uPc = "done" =>
        /\ uRequest.id = uId
        /\ DOMAIN uRequest.payload = {decamelize(k) : k \in KeptKeys}
        /\ \A k \in KeptKeys :
              /\ uUpdates[k].kind = "scalar" => uRequest.payload[decamelize(k)] = uUpdates[k]
              /\ uUpdates[k].kind = "object" =>
                    uRequest.payload[decamelize(k)] = [kind |-> "object", keys |-> "snake"]

\* an update with a relation key, an array under another key and a scalar
C23_Witness ==
    /\ uPc = "done"
    /\ "owner" \in DOMAIN uUpdates
    /\ "metadata" \in DOMAIN uUpdates /\ uUpdates["metadata"].kind = "array"
    /\ "createdAt" \in DOMAIN uUpdates /\ uUpdates["createdAt"].kind = "scalar"
    /\ DOMAIN uRequest.payload = {"created_at"}

(***************************************************************************)
(* Error state of useErrorHandler                                          *)
(***************************************************************************)
\* the last call was an execute or executeQuietly whose operation threw
FailedExecute ==
    /\ hLast.op \in {"execute", "executeQuietly"}
    /\ (hLast.threw \/ hLast.input # NullVal)

\* C24: after any sequence of handle, clearError, execute and executeQuietly
\* calls, isError is true exactly when lastError is non-null; clearError
\* leaves lastError null and isError false; a failed execute or
\* executeQuietly leaves lastError equal to the normalized error of the
\* failure.
C24_ErrorStateConsistent ==
    /\ hIsError <=> hLastError # NullVal
    /\ hLast.op = "clearError" => (hLastError = NullVal /\ ~hIsError)
    /\ FailedExecute =>
          /\ isAppError(hLastError)
          /\ hLast.handled => hLastError = hLast.result

(***************************************************************************)
(* Overlapping calls on one useSupabase instance                           *)
(***************************************************************************)
InFlight == {i \in 1..MaxCalls : wCalls[i].pc = "awaiting"}

\* C26: with overlapping calls on one useSupabase instance, the loading flag
\* is true in every state in which at least one call is still in flight and
\* false once none is in flight.
C26_LoadingWhileInFlight == wLoading <=> InFlight # {}

(***************************************************************************)
(* UserProvider                                                            *)
(***************************************************************************)
NothingInFlight ==
    /\ pSession = "done"
    /\ \A i \in DOMAIN pFetches : pFetches[i].pc # "inflight"

\* C27: isLoading returns to false: after any sequence of auth-state
\* changes, once no session check and no profile fetch is in flight,
\* isLoading is false.
C27_LoadingEnds == NothingInFlight => ~pIsLoading

\* C28: superseded profile responses are discarded, so in every state
\* tofilUser is null or is the profile fetched for the current supabaseUser.
C28_ProfileOfCurrentUser == pTofilUser = "none" \/ pTofilUser = pSupabaseUser

(***************************************************************************)
(* useVersionCheck                                                         *)
(***************************************************************************)
\* C29: at most one version check runs at a time, no check starts within 5
\* seconds of the start of the previous one, whatever the interleaving of
\* the interval, the route-change timer and manual calls, and the
\* in-progress marker is cleared after every check, however it ends.
C29_OneCheckThrottled ==
    /\ vRunning <= 1
    /\ vGap # -1 => vGap >= 5
    /\ vRunning = 0 => ~vChecking

\* a check that ended with an exception, then the next check started once
\* the minimum interval had passed
C29_Witness ==
    /\ vLastOutcome = "throw"
    /\ vGap >= 5
    /\ vChecking
    /\ vRunning = 1

(***************************************************************************)
(* useLocalStorage                                                         *)
(***************************************************************************)
\* C30: after removeValue() the storage holds no entry for the key and the
\* hook's state is initialValue; the entry is not written back until the
\* next setValue.
C30_RemovedStaysRemoved ==
    sLast = "remove" => (sStorage = NoItem /\ sValue = sInitial)
====
